---- MODULE Spec2Model ----
(***************************************************************************)
(* A model of the ISpeak API: password hashing, the JWT bearer credential, *)
(* the ownership-scoped ISpeak / API-token / tag stores and the visibility *)
(* policy of the public paginated read path.                               *)
(*                                                                         *)
(* Encodings.  Python None is the string "None" where the value is a       *)
(* string, and a record with a FALSE flag where the value is a document.   *)
(* An ObjectId is a positive integer; among the strings a request may      *)
(* carry where an ObjectId string is expected, 0 stands for the empty      *)
(* string and BadObjectId for a non-empty string ObjectId.is_valid         *)
(* rejects.  Time is a discrete clock; datetime.utcnow() reads it,   *)
(* and two readings within one handler may differ.                         *)
(***************************************************************************)
EXTENDS Integers, Sequences, FiniteSets, TLC

VARIABLES
    ispeak,     \* the ISPEAK collection: a set of documents
    tokens,     \* the TOKENS collection (API tokens)
    tags,       \* the ISPEAK_TAGS collection
    ids,        \* ObjectIds generated so far, per collection
    now,        \* the clock
    resp,       \* the response to the last HTTP request
    pw,         \* password scenario: plaintexts, digest and verification result
    jwt,        \* bearer-token scenario: tokens issued and the last verification
    pending,    \* requests suspended at an await between their check and write
    conn,       \* app/database.py: the module globals and the callers' positions
    users       \* user scenarios: the USERS collection, requests in flight

vars == <<ispeak, tokens, tags, ids, now, resp, pw, jwt, pending, conn, users>>

----------------------------------------------------------------------------
(* Bounds *)

MaxIspeak == 1      \* ISpeak documents ever inserted in the feed scenario
MaxDocs == 1        \* documents ever inserted in the ownership scenario
MaxNow == 1         \* the clock runs 0..MaxNow
MaxPwLen == 2       \* longest plaintext password
MaxIssued == 2      \* bearer tokens issued in the token scenario
MaxTokens == 2      \* API tokens ever registered in the API-token scenario
MaxList == 3        \* entries ever posted in the paging scenario
MaxTags == 2        \* tags ever created in the tag scenario
MaxPending == 2     \* requests suspended at the same time
MaxRead == 2        \* entries ever posted in the read scenario
MaxCallers == 3     \* coroutines asking for the storage handle
MaxClients == 3     \* storage clients ever created
MaxInit == 2        \* bootstrap requests in flight at the same time

----------------------------------------------------------------------------
(* Python values *)

None == "None"

falsy(x) == x = None \/ x = ""

Min(a, b) == IF a < b THEN a ELSE b

\* dict.update / MongoDB $set: the fields of s overwrite those of e
SetFields(e, s) ==
    [f \in (DOMAIN e) \cup (DOMAIN s) |-> IF f \in DOMAIN s THEN s[f] ELSE e[f]]

NoFields == [f \in {} |-> None]

----------------------------------------------------------------------------
(* The USERS collection: in scope it is only read, by the $lookup of the   *)
(* listing pipelines; users are never deleted.                             *)

Users == {"u1", "u2"}

userNameOf(u) == IF u = "u1" THEN "alice" ELSE "bob"

authorInfo(u) == [_id |-> u, nickName |-> userNameOf(u)]

----------------------------------------------------------------------------
(* app/core/security.py: the bearer token *)

ACCESS_TOKEN_EXPIRE_MINUTES == 43200

SECRET_KEY == "SECRET_KEY"

OTHER_KEY == "other-key"

\* timedelta(minutes = m), in clock units (seconds)
minutes(m) == m * 60

\* Optional[timedelta] = None
NoDelta == -1

\* truth value of an Optional[timedelta]: None and timedelta(0) are false
truthy_delta(d) == d # NoDelta /\ d # 0

\* the HS256 signature of a payload under a key; equal only for equal inputs
HS256(key, payload) == [key |-> key, signed |-> payload]

jwt_encode(to_encode, key) ==
    [present |-> TRUE, wellFormed |-> TRUE, payload |-> to_encode,
     sig |-> HS256(key, to_encode)]
\* a decoder that checks structure and signature but not the exp claim
jwt_decode_ignoring_exp(token, key, t) ==
    IF ~token.wellFormed THEN [ok |-> FALSE, error |-> "JWTError"]
    ELSE IF token.sig # HS256(key, token.payload)
        THEN [ok |-> FALSE, error |-> "JWTError"]
    ELSE [ok |-> TRUE, payload |-> token.payload]

\* jose.jwt.decode: structure, signature, then the exp claim against the clock
jwt_decode(token, key, t) ==
    IF ~token.wellFormed THEN [ok |-> FALSE, error |-> "JWTError"]
    ELSE IF token.sig # HS256(key, token.payload)
        THEN [ok |-> FALSE, error |-> "JWTError"]
    ELSE IF token.payload.exp < t
        THEN [ok |-> FALSE, error |-> "ExpiredSignatureError"]
    ELSE [ok |-> TRUE, payload |-> token.payload]
\* an issuer that writes the user id into the userName claim
create_access_token_mixing_claims(data, expires_delta, t) ==
    LET expire == IF truthy_delta(expires_delta)
                  THEN t + expires_delta
                  ELSE t + minutes(ACCESS_TOKEN_EXPIRE_MINUTES)
        to_encode == SetFields([data EXCEPT !.userName = data.userId], [exp |-> expire])
    IN jwt_encode(to_encode, SECRET_KEY)

create_access_token(data, expires_delta, t) ==
    LET expire == IF truthy_delta(expires_delta)
                  THEN t + expires_delta
                  ELSE t + minutes(ACCESS_TOKEN_EXPIRE_MINUTES)
        to_encode == SetFields(data, [exp |-> expire])
    IN jwt_encode(to_encode, SECRET_KEY)

\* the payload, or None (ok = FALSE) on any JWTError
decode_access_token(token, t) ==
    LET r == jwt_decode(token, SECRET_KEY, t)
    IN IF r.ok THEN [ok |-> TRUE, payload |-> r.payload] ELSE [ok |-> FALSE]

\* the payload, or HTTPException 401
verify_token(token, t) ==
    LET payload == decode_access_token(token, t)
    IN IF ~payload.ok
       THEN [ok |-> FALSE, status |-> 401, detail |-> "invalid credentials"]
       ELSE [ok |-> TRUE, payload |-> payload.payload]

\* AuthService.create_token: the default validity window is always used
create_token(user, t) ==
    LET token_data == [userId |-> user._id, userName |-> user.userName]
    IN create_access_token(token_data, NoDelta, t)

----------------------------------------------------------------------------
(* app/core/security.py: passwords.  A string is a sequence of characters. *)

BCRYPT_MAX_BYTES == 72

\* hashlib.sha256(password).hexdigest(): 64 hex digits, a different string
\* for each password and, for the passwords considered, never itself a password
sha256_hexdigest(password) == <<"sha256:">> \o password

preprocess_password(password) == sha256_hexdigest(password)

\* bcrypt reads at most BCRYPT_MAX_BYTES bytes of the secret
bcrypt_input(secret) == SubSeq(secret, 1, Min(Len(secret), BCRYPT_MAX_BYTES))

\* a bcrypt hash string: the salt it carries and the digest of salt and secret
bcrypt_hashpw(secret, salt) ==
    [empty |-> FALSE, wellFormed |-> TRUE, salt |-> salt,
     digest |-> <<salt, bcrypt_input(secret)>>]

\* bcrypt.checkpw: ValueError on a string that is no bcrypt hash
bcrypt_checkpw(password_bytes, hash_bytes) ==
    IF ~hash_bytes.wellFormed THEN [raised |-> TRUE, error |-> "ValueError"]
    ELSE [raised |-> FALSE,
          result |-> bcrypt_hashpw(password_bytes, hash_bytes.salt).digest
                        = hash_bytes.digest]

\* pwd_context.hash draws the salt
hash_password(password, salt) ==
    LET preprocessed == preprocess_password(password)
    IN bcrypt_hashpw(preprocessed, salt)

\* a verification that takes a failure of the primitive for a match
verify_password_failure_as_match(plain_password, hashed_password) ==
    IF plain_password = <<>> \/ hashed_password.empty THEN FALSE
    ELSE LET r == bcrypt_checkpw(plain_password, hashed_password)
         IN IF r.raised THEN TRUE ELSE r.result

verify_password(plain_password, hashed_password) ==
    IF plain_password = <<>> \/ hashed_password.empty THEN FALSE
    ELSE LET r == bcrypt_checkpw(plain_password, hashed_password)
         IN IF r.raised THEN FALSE ELSE r.result

----------------------------------------------------------------------------
(* app/core/dependencies.py *)

get_current_user(credentials, t) ==
    LET v == verify_token(credentials, t)
    IN IF ~v.ok THEN v
       ELSE [ok |-> TRUE,
             user |-> [userId |-> v.payload.userId, userName |-> v.payload.userName]]

\* a dependency that takes the claims of a token it could not verify
get_current_user_optional_unverified(credentials, t) ==
    IF ~credentials.present \/ ~credentials.wellFormed THEN [some |-> FALSE]
    ELSE [some |-> TRUE,
          user |-> [userId |-> credentials.payload.userId,
                    userName |-> credentials.payload.userName]]

\* None (some = FALSE) without credentials or when verification raises
get_current_user_optional(credentials, t) ==
    IF ~credentials.present THEN [some |-> FALSE]
    ELSE LET v == verify_token(credentials, t)
         IN IF v.ok
            THEN [some |-> TRUE,
                  user |-> [userId |-> v.payload.userId,
                            userName |-> v.payload.userName]]
            ELSE [some |-> FALSE]

----------------------------------------------------------------------------
(* The document store (MongoDB driver semantics) *)

BadObjectId == -1

ObjectId_is_valid(s) == s >= 1

db_of(i, k, g, n) == [ispeak |-> i, tokens |-> k, tags |-> g, ids |-> n]

\* collection.update_one({"_id": id, <ownerField>: owner}, {"$set": set_doc}):
\* one atomic conditional update; modified_count counts a document only when
\* the $set changed it
mongo_update_one(coll, id, ownerField, owner, set_doc) ==
    LET matched == {d \in coll : d._id = id /\ d[ownerField] = owner}
    IN IF matched = {}
       THEN [coll |-> coll, matched_count |-> 0, modified_count |-> 0]
       ELSE LET d == CHOOSE x \in matched : TRUE
                d2 == SetFields(d, set_doc)
            IN [coll |-> (coll \ {d}) \cup {d2},
                matched_count |-> 1,
                modified_count |-> IF d2 = d THEN 0 ELSE 1]
\* a delete whose filter names the _id only
mongo_delete_one_by_id_only(coll, id, ownerField, owner) ==
    LET matched == {d \in coll : d._id = id}
    IN IF matched = {}
       THEN [coll |-> coll, deleted_count |-> 0]
       ELSE [coll |-> coll \ {CHOOSE x \in matched : TRUE}, deleted_count |-> 1]

\* collection.delete_one({"_id": id, <ownerField>: owner})
mongo_delete_one(coll, id, ownerField, owner) ==
    LET matched == {d \in coll : d._id = id /\ d[ownerField] = owner}
    IN IF matched = {}
       THEN [coll |-> coll, deleted_count |-> 0]
       ELSE [coll |-> coll \ {CHOOSE x \in matched : TRUE}, deleted_count |-> 1]

\* the orders a {"$sort": {"createdAt": -1}} stage may produce: newest first,
\* documents with equal createdAt in either order
sort_createdAt_desc(docs) ==
    {s \in [1..Cardinality(docs) -> docs] :
        /\ \A i, j \in DOMAIN s : i # j => s[i] # s[j]
        /\ \A i, j \in DOMAIN s : i < j => s[i].createdAt >= s[j].createdAt}
\* a $limit stage without the $skip stage before it
skip_limit_without_skip(s, skip, limit) == SubSeq(s, 1, Min(Len(s), limit))

\* {"$skip": skip}, {"$limit": limit}
skip_limit(s, skip, limit) == SubSeq(s, skip + 1, Min(Len(s), skip + limit))

\* $lookup + $unwind(preserveNullAndEmptyArrays) + $project of the tag fields:
\* the empty document when the reference dangles
tagInfo(db, tag) ==
    LET found == {g \in db.tags : g._id = tag}
    IN IF found = {} THEN NoFields
       ELSE LET g == CHOOSE x \in found : TRUE
            IN [_id |-> g._id, name |-> g.name, bgColor |-> g.bgColor]

----------------------------------------------------------------------------
(* HTTP responses: SuccessResponse.create and HTTPException *)

Success(data, message) == [status |-> 200, message |-> message, data |-> data]

HTTPException(status_code, detail) ==
    [status |-> status_code, message |-> detail, data |-> NoFields]

----------------------------------------------------------------------------
(* app/services/ispeak_service.py *)

LOGIN_REQUIRED == "login required to view this content"

AUTHOR_ONLY == "this content is visible to its author only"
\* a visibility policy that shows an author-only entry to every logged-in viewer
process_visibility_author_only_to_any_login(item, current_user_id) ==
    IF item.type = "1" /\ falsy(current_user_id)
    THEN [item EXCEPT !.content = LOGIN_REQUIRED, !.title = ""]
    ELSE IF item.type = "2" /\ falsy(current_user_id)
    THEN [item EXCEPT !.content = AUTHOR_ONLY, !.title = ""]
    ELSE item

\* a visibility policy that shows a login-required entry to its author only
process_visibility_login_required_to_author(item, current_user_id) ==
    IF item.type = "1" /\ (falsy(current_user_id) \/ current_user_id # item.author._id)
    THEN [item EXCEPT !.content = LOGIN_REQUIRED, !.title = ""]
    ELSE IF item.type = "2" /\ (falsy(current_user_id) \/ current_user_id # item.author._id)
    THEN [item EXCEPT !.content = AUTHOR_ONLY, !.title = ""]
    ELSE item

\* a visibility policy that asks for a login on public entries too
process_visibility_public_needs_login(item, current_user_id) ==
    IF item.type \in {"0", "1"} /\ falsy(current_user_id)
    THEN [item EXCEPT !.content = LOGIN_REQUIRED, !.title = ""]
    ELSE IF item.type = "2" /\ (falsy(current_user_id) \/ current_user_id # item.author._id)
    THEN [item EXCEPT !.content = AUTHOR_ONLY, !.title = ""]
    ELSE item
\* a visibility policy that hides the content and leaves the title
process_visibility_keeping_title(item, current_user_id) ==
    IF item.type = "1" /\ falsy(current_user_id)
    THEN [item EXCEPT !.content = LOGIN_REQUIRED]
    ELSE IF item.type = "2" /\ (falsy(current_user_id) \/ current_user_id # item.author._id)
    THEN [item EXCEPT !.content = AUTHOR_ONLY]
    ELSE item

\* a policy that hides the entries of a tier it does not know
process_visibility_failing_closed(item, current_user_id) ==
    IF item.type = "0" \/ (item.type = "1" /\ ~falsy(current_user_id))
       \/ (item.type = "2" /\ current_user_id = item.author._id)
    THEN item
    ELSE [item EXCEPT !.content = IF item.type = "1" THEN LOGIN_REQUIRED
                                  ELSE AUTHOR_ONLY,
                      !.title = ""]

IspeakService_process_visibility(item, current_user_id) ==
    LET item_type == item.type
        author_id == item.author._id
    IN IF item_type = "0" THEN item
       ELSE IF item_type = "1"
           THEN IF falsy(current_user_id)
                THEN [item EXCEPT !.content = LOGIN_REQUIRED, !.title = ""]
                ELSE item
       ELSE IF item_type = "2"
           THEN IF falsy(current_user_id) \/ current_user_id # author_id
                THEN [item EXCEPT !.content = AUTHOR_ONLY, !.title = ""]
                ELSE item
       ELSE item

\* the $project stage of the public pipeline
project_public(db, d) ==
    [_id |-> d._id, title |-> d.title, content |-> d.content, type |-> d.type,
     showComment |-> d.showComment, createdAt |-> d.createdAt,
     updatedAt |-> d.updatedAt, author |-> authorInfo(d.author),
     tag |-> tagInfo(db, d.tag)]

\* sorted: the order the $sort stage produced, one of sort_createdAt_desc
IspeakService_get_by_page(db, author, page, page_size, current_user, sorted) ==
    LET current_user_id == IF current_user.some THEN current_user.user.userId ELSE None
        total == Cardinality({d \in db.ispeak : d.author = author})
        skip == (page - 1) * page_size
        page_docs == skip_limit(sorted, skip, page_size)
        processed_items ==
            [i \in DOMAIN page_docs |->
                IspeakService_process_visibility(project_public(db, page_docs[i]),
                                                 current_user_id)]
    IN [total |-> total, items |-> processed_items, isLogin |-> current_user_id]

\* createdAt and updatedAt are two readings of the clock, t and then t2
IspeakService_add_one(db, author_id, content, tag_id, title, ispeak_type, show_comment, t, t2) ==
    IF ~ObjectId_is_valid(tag_id)
    THEN [raised |-> TRUE, error |-> "ValueError", db |-> db]
    ELSE LET ispeak_data ==
                 [_id |-> db.ids.ispeak + 1, title |-> title, content |-> content,
                  type |-> ispeak_type, tag |-> tag_id, showComment |-> show_comment,
                  author |-> author_id, createdAt |-> t, updatedAt |-> t2]
         IN [raised |-> FALSE,
             db |-> [db EXCEPT !.ispeak = @ \cup {ispeak_data},
                               !.ids.ispeak = @ + 1],
             result |-> ispeak_data]
\* an update whose filter names the _id only
IspeakService_update_one_by_id_only(db, ispeak_id, author_id, update_data, t) ==
    IF "tag" \in DOMAIN update_data /\ update_data.tag # 0
       /\ ~ObjectId_is_valid(update_data.tag)
    THEN [raised |-> TRUE, error |-> "ValueError", db |-> db]
    ELSE LET set_doc == SetFields(update_data, [updatedAt |-> t])
             result == mongo_update_one(db.ispeak, ispeak_id, "_id", ispeak_id, set_doc)
         IN [raised |-> FALSE,
             db |-> [db EXCEPT !.ispeak = result.coll],
             result |-> [matchedCount |-> result.matched_count,
                         modifiedCount |-> result.modified_count]]

IspeakService_update_one(db, ispeak_id, author_id, update_data, t) ==
    IF "tag" \in DOMAIN update_data /\ update_data.tag # 0
       /\ ~ObjectId_is_valid(update_data.tag)
    THEN [raised |-> TRUE, error |-> "ValueError", db |-> db]
    ELSE LET set_doc == SetFields(update_data, [updatedAt |-> t])
             result == mongo_update_one(db.ispeak, ispeak_id, "author", author_id, set_doc)
         IN [raised |-> FALSE,
             db |-> [db EXCEPT !.ispeak = result.coll],
             result |-> [matchedCount |-> result.matched_count,
                         modifiedCount |-> result.modified_count]]

IspeakService_update_status(db, ispeak_id, author_id, show_comment, t) ==
    LET set_doc == [showComment |-> show_comment, updatedAt |-> t]
        result == mongo_update_one(db.ispeak, ispeak_id, "author", author_id, set_doc)
    IN [db |-> [db EXCEPT !.ispeak = result.coll],
        result |-> [matchedCount |-> result.matched_count,
                    modifiedCount |-> result.modified_count]]

IspeakService_delete_one(db, ispeak_id, author_id) ==
    LET result == mongo_delete_one(db.ispeak, ispeak_id, "author", author_id)
    IN [db |-> [db EXCEPT !.ispeak = result.coll],
        result |-> [deletedCount |-> result.deleted_count]]

----------------------------------------------------------------------------
(* app/routers/ispeak.py: each handler maps the store, the clock and the  *)
(* request to the new store and the response                               *)

get_ispeak_by_page(db, t, credentials, author, page, pageSize, sorted) ==
    LET current_user == get_current_user_optional(credentials, t)
        result == IspeakService_get_by_page(db, author, page, pageSize, current_user, sorted)
    IN [db |-> db, resp |-> Success(result, "ok")]

add_ispeak(db, t, credentials, body, t2) ==
    LET current_user == get_current_user(credentials, t)
    IN IF ~current_user.ok
       THEN [db |-> db, resp |-> HTTPException(current_user.status, current_user.detail)]
       ELSE LET r == IspeakService_add_one(db, current_user.user.userId, body.content,
                                           body.tag, body.title, body.type,
                                           body.showComment, t, t2)
            IN IF r.raised
               THEN [db |-> db, resp |-> HTTPException(400, "invalid tag id")]
               ELSE [db |-> r.db, resp |-> Success(r.result, "added")]

update_ispeak(db, t, credentials, ispeak_id, update_dict) ==
    LET current_user == get_current_user(credentials, t)
    IN IF ~current_user.ok
       THEN [db |-> db, resp |-> HTTPException(current_user.status, current_user.detail)]
       ELSE IF DOMAIN update_dict = {}
       THEN [db |-> db, resp |-> HTTPException(400, "no update fields")]
       ELSE LET r == IspeakService_update_one(db, ispeak_id, current_user.user.userId,
                                              update_dict, t)
            IN IF r.raised
               THEN [db |-> db, resp |-> HTTPException(400, "invalid tag id")]
               ELSE IF r.result.matchedCount = 0
               THEN [db |-> r.db,
                     resp |-> HTTPException(404, "ispeak missing or not permitted")]
               ELSE IF r.result.modifiedCount = 0
               THEN [db |-> r.db, resp |-> Success(r.result, "nothing modified")]
               ELSE [db |-> r.db, resp |-> Success(r.result, "updated")]

update_ispeak_status(db, t, credentials, ispeak_id, showComment) ==
    LET current_user == get_current_user(credentials, t)
    IN IF ~current_user.ok
       THEN [db |-> db, resp |-> HTTPException(current_user.status, current_user.detail)]
       ELSE LET r == IspeakService_update_status(db, ispeak_id, current_user.user.userId,
                                                 showComment, t)
            IN IF r.result.matchedCount = 0
               THEN [db |-> r.db,
                     resp |-> HTTPException(404, "ispeak missing or not permitted")]
               ELSE IF r.result.modifiedCount = 0
               THEN [db |-> r.db, resp |-> Success(r.result, "nothing modified")]
               ELSE [db |-> r.db, resp |-> Success(r.result, "updated")]

delete_ispeak(db, t, credentials, ispeak_id) ==
    LET current_user == get_current_user(credentials, t)
    IN IF ~current_user.ok
       THEN [db |-> db, resp |-> HTTPException(current_user.status, current_user.detail)]
       ELSE LET r == IspeakService_delete_one(db, ispeak_id, current_user.user.userId)
            IN IF r.result.deletedCount = 0
               THEN [db |-> r.db,
                     resp |-> HTTPException(404, "ispeak missing or not permitted")]
               ELSE [db |-> r.db, resp |-> Success(r.result, "deleted")]

----------------------------------------------------------------------------
(* app/services/token_service.py *)
\* an add whose existence check names the title only
TokenService_add_one_title_only(db, user_id, title, value, t, t2) ==
    LET existing == {k \in db.tokens : k.title = title}
    IN IF existing # {}
       THEN [raised |-> TRUE, error |-> "ValueError", db |-> db]
       ELSE LET token_data ==
                    [_id |-> db.ids.tokens + 1, title |-> title, value |-> value,
                     user |-> user_id, createdAt |-> t, updatedAt |-> t2]
            IN [raised |-> FALSE,
                db |-> [db EXCEPT !.tokens = @ \cup {token_data},
                                  !.ids.tokens = @ + 1],
                result |-> token_data]

TokenService_add_one(db, user_id, title, value, t, t2) ==
    LET existing == {k \in db.tokens : k.user = user_id /\ k.title = title}
    IN IF existing # {}
       THEN [raised |-> TRUE, error |-> "ValueError", db |-> db]
       ELSE LET token_data ==
                    [_id |-> db.ids.tokens + 1, title |-> title, value |-> value,
                     user |-> user_id, createdAt |-> t, updatedAt |-> t2]
            IN [raised |-> FALSE,
                db |-> [db EXCEPT !.tokens = @ \cup {token_data},
                                  !.ids.tokens = @ + 1],
                result |-> token_data]

TokenService_update_one(db, token_id, user_id, update_data, t) ==
    LET set_doc == SetFields(update_data, [updatedAt |-> t])
        result == mongo_update_one(db.tokens, token_id, "user", user_id, set_doc)
    IN [db |-> [db EXCEPT !.tokens = result.coll],
        result |-> [matchedCount |-> result.matched_count,
                    modifiedCount |-> result.modified_count]]

TokenService_delete_one(db, token_id, user_id) ==
    LET result == mongo_delete_one(db.tokens, token_id, "user", user_id)
    IN [db |-> [db EXCEPT !.tokens = result.coll],
        result |-> [deletedCount |-> result.deleted_count]]
\* a lookup by value alone, whatever the title
TokenService_validate_token_any_title(db, title, value) ==
    {k \in db.tokens : k.value = value}

\* find_one({"title": title, "value": value}): any one of the matching tokens
TokenService_validate_token(db, title, value) ==
    {k \in db.tokens : k.title = title /\ k.value = value}

----------------------------------------------------------------------------
(* app/routers/token.py *)

add_token(db, t, credentials, title, value, t2) ==
    LET current_user == get_current_user(credentials, t)
    IN IF ~current_user.ok
       THEN [db |-> db, resp |-> HTTPException(current_user.status, current_user.detail)]
       ELSE LET r == TokenService_add_one(db, current_user.user.userId, title, value, t, t2)
            IN IF r.raised
               THEN [db |-> db, resp |-> HTTPException(400, "token title exists")]
               ELSE [db |-> r.db, resp |-> Success(r.result, "added")]

update_token(db, t, credentials, token_id, update_dict) ==
    LET current_user == get_current_user(credentials, t)
    IN IF ~current_user.ok
       THEN [db |-> db, resp |-> HTTPException(current_user.status, current_user.detail)]
       ELSE IF DOMAIN update_dict = {}
       THEN [db |-> db, resp |-> HTTPException(400, "no update fields")]
       ELSE LET r == TokenService_update_one(db, token_id, current_user.user.userId,
                                             update_dict, t)
            IN IF r.result.matchedCount = 0
               THEN [db |-> r.db,
                     resp |-> HTTPException(404, "token missing or not permitted")]
               ELSE IF r.result.modifiedCount = 0
               THEN [db |-> r.db, resp |-> Success(r.result, "nothing modified")]
               ELSE [db |-> r.db, resp |-> Success(r.result, "updated")]

delete_token(db, t, credentials, token_id) ==
    LET current_user == get_current_user(credentials, t)
    IN IF ~current_user.ok
       THEN [db |-> db, resp |-> HTTPException(current_user.status, current_user.detail)]
       ELSE LET r == TokenService_delete_one(db, token_id, current_user.user.userId)
            IN IF r.result.deletedCount = 0
               THEN [db |-> r.db,
                     resp |-> HTTPException(404, "token missing or not permitted")]
               ELSE [db |-> r.db, resp |-> Success(r.result, "deleted")]

----------------------------------------------------------------------------
(* app/services/ispeak_tag_service.py *)

\* add_one up to its first await: the tags find_one({"user", "name"}) matches
IspeakTagService_add_one_existing(db, user_id, name) ==
    {g \in db.tags : g.user = user_id /\ g.name = name}

\* add_one after the check: tag_data is stamped and inserted
IspeakTagService_add_one_insert(db, user_id, name, bg_color, order_no, description, t, t2) ==
    LET tag_data ==
            [_id |-> db.ids.tags + 1, name |-> name, bgColor |-> bg_color,
             user |-> user_id, orderNo |-> order_no,
             description |-> description, createdAt |-> t, updatedAt |-> t2]
    IN [raised |-> FALSE,
        db |-> [db EXCEPT !.tags = @ \cup {tag_data}, !.ids.tags = @ + 1],
        result |-> tag_data]

\* an add that inserts without looking for the name
IspeakTagService_add_one_unchecked(db, user_id, name, bg_color, order_no, description, t, t2) ==
    IspeakTagService_add_one_insert(db, user_id, name, bg_color, order_no, description,
                                    t, t2)

IspeakTagService_add_one(db, user_id, name, bg_color, order_no, description, t, t2) ==
    LET existing == IspeakTagService_add_one_existing(db, user_id, name)
    IN IF existing # {}
       THEN [raised |-> TRUE, error |-> "ValueError", db |-> db]
       ELSE IspeakTagService_add_one_insert(db, user_id, name, bg_color, order_no,
                                            description, t, t2)

\* update_one up to its first await: the owner's other tags of the new name
IspeakTagService_update_one_existing(db, tag_id, user_id, update_data) ==
    IF "name" \in DOMAIN update_data
    THEN {g \in db.tags : /\ g.user = user_id
                          /\ g.name = update_data.name
                          /\ g._id # tag_id}
    ELSE {}

\* update_one after the check: updatedAt is stamped and the owner-filtered
\* update_one is sent
IspeakTagService_update_one_write(db, tag_id, user_id, update_data, t) ==
    LET set_doc == SetFields(update_data, [updatedAt |-> t])
        result == mongo_update_one(db.tags, tag_id, "user", user_id, set_doc)
    IN [raised |-> FALSE,
        db |-> [db EXCEPT !.tags = result.coll],
        result |-> [matchedCount |-> result.matched_count,
                    modifiedCount |-> result.modified_count]]

IspeakTagService_update_one(db, tag_id, user_id, update_data, t) ==
    LET existing == IspeakTagService_update_one_existing(db, tag_id, user_id, update_data)
    IN IF existing # {}
       THEN [raised |-> TRUE, error |-> "ValueError", db |-> db]
       ELSE IspeakTagService_update_one_write(db, tag_id, user_id, update_data, t)

----------------------------------------------------------------------------
(* app/routers/ispeak_tag.py *)

add_tag(db, t, credentials, body, t2) ==
    LET current_user == get_current_user(credentials, t)
    IN IF ~current_user.ok
       THEN [db |-> db, resp |-> HTTPException(current_user.status, current_user.detail)]
       ELSE LET r == IspeakTagService_add_one(db, current_user.user.userId, body.name,
                                              body.bgColor, body.orderNo,
                                              body.description, t, t2)
            IN IF r.raised
               THEN [db |-> db, resp |-> HTTPException(400, "tag name exists")]
               ELSE [db |-> r.db, resp |-> Success(r.result, "added")]
\* a route that answers 403 for a tag that exists under another owner
update_tag_forbidding(db, t, credentials, tag_id, update_dict) ==
    LET current_user == get_current_user(credentials, t)
    IN IF ~current_user.ok
       THEN [db |-> db, resp |-> HTTPException(current_user.status, current_user.detail)]
       ELSE IF DOMAIN update_dict = {}
       THEN [db |-> db, resp |-> HTTPException(400, "no update fields")]
       ELSE LET r == IspeakTagService_update_one(db, tag_id, current_user.user.userId,
                                                 update_dict, t)
            IN IF r.raised
               THEN [db |-> db, resp |-> HTTPException(400, "tag name exists")]
               ELSE IF r.result.matchedCount = 0 /\ \E g \in db.tags : g._id = tag_id
               THEN [db |-> r.db, resp |-> HTTPException(403, "not permitted")]
               ELSE IF r.result.matchedCount = 0
               THEN [db |-> r.db,
                     resp |-> HTTPException(404, "tag missing or not permitted")]
               ELSE IF r.result.modifiedCount = 0
               THEN [db |-> r.db, resp |-> Success(r.result, "nothing modified")]
               ELSE [db |-> r.db, resp |-> Success(r.result, "updated")]

update_tag(db, t, credentials, tag_id, update_dict) ==
    LET current_user == get_current_user(credentials, t)
    IN IF ~current_user.ok
       THEN [db |-> db, resp |-> HTTPException(current_user.status, current_user.detail)]
       ELSE IF DOMAIN update_dict = {}
       THEN [db |-> db, resp |-> HTTPException(400, "no update fields")]
       ELSE LET r == IspeakTagService_update_one(db, tag_id, current_user.user.userId,
                                                 update_dict, t)
            IN IF r.raised
               THEN [db |-> db, resp |-> HTTPException(400, "tag name exists")]
               ELSE IF r.result.matchedCount = 0
               THEN [db |-> r.db,
                     resp |-> HTTPException(404, "tag missing or not permitted")]
               ELSE IF r.result.modifiedCount = 0
               THEN [db |-> r.db, resp |-> Success(r.result, "nothing modified")]
               ELSE [db |-> r.db, resp |-> Success(r.result, "updated")]

----------------------------------------------------------------------------
(* Requests: the inputs the handlers are driven with *)

Claims(u, exp) == [userId |-> u, userName |-> userNameOf(u), exp |-> exp]

\* a token minted by create_token so that it expires at exp
Bearer(u, exp) == jwt_encode(Claims(u, exp), SECRET_KEY)

\* a token signed with a key that is not the server's
Forged(u, exp) == jwt_encode(Claims(u, exp), OTHER_KEY)

\* the server's signature of v's claims attached to u's claims
Tampered(u, v, exp) == [Bearer(v, exp) EXCEPT !.payload = Claims(u, exp)]

\* a string that is not a JWT
Malformed == [Bearer("u1", 0) EXCEPT !.wellFormed = FALSE]

\* no Authorization header
NoCredentials == [Bearer("u1", 0) EXCEPT !.present = FALSE]

\* expiry of a session minted within the clock's range
SessionExp == MaxNow + minutes(ACCESS_TOKEN_EXPIRE_MINUTES)

Session(u) == Bearer(u, SessionExp)

\* a session minted one validity window before the clock's origin: it is
\* accepted at time 0 and expired from time 1 on
StaleSession(u) == Bearer(u, 0)

\* credentials the verification rejects at time t
InvalidCredentials(t) ==
    {Forged(u, SessionExp) : u \in Users}
    \cup {Tampered(x[1], x[2], SessionExp) : x \in {y \in Users \X Users : y[1] # y[2]}}
    \cup {Malformed}
    \cup {Bearer(u, e) : u \in Users, e \in 0..(t - 1)}

\* the credentials requests are sent with
RequestCredentials == {Session(u) : u \in Users} \cup {StaleSession("u1")}

Types == {"0", "1", "2", "9"}

IspeakBodies ==
    [content : {"c1"}, title : {"t1"}, type : Types, tag : {1, BadObjectId},
     showComment : {"1"}]

IspeakPatches ==
    {NoFields, [content |-> "c2"], [tag |-> BadObjectId], [type |-> "2", title |-> "t2"]}

TagBodies ==
    [name : {"life"}, bgColor : {"#DB2828"}, orderNo : {0}, description : {""}]

Pages == {1, 2}

PageSizes == {1, 2}

----------------------------------------------------------------------------
(* Actions: one per HTTP operation, and the clock.  resp keeps the last    *)
(* request with the response it got.                                       *)

DB == db_of(ispeak, tokens, tags, ids)

NoResp == [op |-> "none", req |-> NoFields, res |-> HTTPException(0, "")]

NoScenario == [phase |-> "off"]

\* the handler's outcome r becomes the store and the last response
Handle(op, req, r) ==
    /\ ispeak' = r.db.ispeak
    /\ tokens' = r.db.tokens
    /\ tags' = r.db.tags
    /\ ids' = r.db.ids
    /\ resp' = [op |-> op, req |-> req, res |-> r.resp]
    /\ UNCHANGED <<now, pw, jwt, pending, conn, users>>

\* a handler that reads the clock a second time before it returns
HandleAt(op, req, r, t2) ==
    /\ ispeak' = r.db.ispeak
    /\ tokens' = r.db.tokens
    /\ tags' = r.db.tags
    /\ ids' = r.db.ids
    /\ resp' = [op |-> op, req |-> req, res |-> r.resp]
    /\ now' = t2
    /\ UNCHANGED <<pw, jwt, pending, conn, users>>

\* what a second datetime.utcnow() may return after one that returned `now`
SecondRead == now..Min(now + 1, MaxNow)

Tick ==
    /\ now < MaxNow
    /\ now' = now + 1
    /\ UNCHANGED <<ispeak, tokens, tags, ids, resp, pw, jwt, pending, conn, users>>

GetIspeakByPage(credentials, author, page, pageSize) ==
    \E sorted \in sort_createdAt_desc({d \in ispeak : d.author = author}) :
        Handle("get_ispeak_by_page",
               [credentials |-> credentials, author |-> author, page |-> page,
                pageSize |-> pageSize],
               get_ispeak_by_page(DB, now, credentials, author, page, pageSize, sorted))

AddIspeak(credentials, body) ==
    \E t2 \in SecondRead :
        HandleAt("add_ispeak", [credentials |-> credentials, body |-> body],
                 add_ispeak(DB, now, credentials, body, t2), t2)

UpdateIspeak(credentials, id, patch) ==
    Handle("update_ispeak", [credentials |-> credentials, id |-> id, patch |-> patch],
           update_ispeak(DB, now, credentials, id, patch))

DeleteIspeak(credentials, id) ==
    Handle("delete_ispeak", [credentials |-> credentials, id |-> id],
           delete_ispeak(DB, now, credentials, id))

AddToken(credentials, title, value) ==
    \E t2 \in SecondRead :
        HandleAt("add_token",
                 [credentials |-> credentials, title |-> title, value |-> value],
                 add_token(DB, now, credentials, title, value, t2), t2)

UpdateToken(credentials, id, patch) ==
    Handle("update_token", [credentials |-> credentials, id |-> id, patch |-> patch],
           update_token(DB, now, credentials, id, patch))

DeleteToken(credentials, id) ==
    Handle("delete_token", [credentials |-> credentials, id |-> id],
           delete_token(DB, now, credentials, id))

AddTag(credentials, body) ==
    \E t2 \in SecondRead :
        HandleAt("add_tag", [credentials |-> credentials, body |-> body],
                 add_tag(DB, now, credentials, body, t2), t2)

UpdateTag(credentials, id, patch) ==
    Handle("update_tag", [credentials |-> credentials, id |-> id, patch |-> patch],
           update_tag(DB, now, credentials, id, patch))

----------------------------------------------------------------------------
(* Spec, the feed scenario: users post entries of every tier and the public *)
(* paginated listing is read by every kind of viewer                        *)

Init ==
    /\ ispeak = {}
    /\ tokens = {}
    /\ tags = {}
    /\ ids = [ispeak |-> 0, tokens |-> 0, tags |-> 0]
    /\ now = 0
    /\ resp = NoResp
    /\ pw = NoScenario
    /\ jwt = NoScenario
    /\ pending = {}
    /\ conn = NoScenario
    /\ users = NoScenario

Next ==
    \/ Tick
    \/ \E c \in RequestCredentials \cup {NoCredentials}, a \in Users,
          p \in Pages, n \in PageSizes :
            GetIspeakByPage(c, a, p, n)
    \/ \E c \in RequestCredentials, b \in IspeakBodies :
            ids.ispeak < MaxIspeak /\ AddIspeak(c, b)
    \/ \E b \in TagBodies :
            ids.tags < 1 /\ AddTag(Session("u1"), b)

Spec == Init /\ [][Next]_vars

----------------------------------------------------------------------------
(* The visibility policy on the public paginated read path *)

\* a viewer is a user with a live session, or None: nobody logged in
Viewers == Users \cup {None}

CredentialsOf(v) == IF v = None THEN NoCredentials ELSE Session(v)

\* the pages the public listing may answer viewer v with, in the current store
PublicPages(v) ==
    UNION {{get_ispeak_by_page(DB, now, CredentialsOf(v), a, p, n, sorted).resp.data :
                p \in Pages, n \in PageSizes,
                sorted \in sort_createdAt_desc({d \in ispeak : d.author = a})} :
           a \in Users}

\* the stored document an item of a page renders
Stored(item) == CHOOSE d \in ispeak : d._id = item._id

Items(page) == {page.items[i] : i \in DOMAIN page.items}

\* the items of the last response, when it answers a public listing by viewer v
ListedTo(v) ==
    IF resp.op = "get_ispeak_by_page" /\ resp.res.data.isLogin = v
    THEN Items(resp.res.data)
    ELSE {}

\* C1: on the public listing an AuthorOnly entry (type "2") shows its stored
\* content and title to the viewer who is its author, and to every other
\* viewer, logged in or not, the author-only placeholder instead.
C1_AuthorOnly ==
    \A v \in Viewers : \A page \in PublicPages(v) :
        /\ page.isLogin = v
        /\ \A item \in Items(page) :
            Stored(item).type = "2" =>
                IF v = Stored(item).author
                THEN item.content = Stored(item).content
                     /\ item.title = Stored(item).title
                ELSE item.content = AUTHOR_ONLY
                     /\ item.content # Stored(item).content

\* a logged-in viewer who is not the author was served the placeholder
C1_Witness ==
    \E v \in Users : \E item \in ListedTo(v) :
        /\ item.type = "2" /\ item.author._id # v
        /\ item.content = AUTHOR_ONLY

\* C2: on the public listing a RequiresAuth entry (type "1") shows the
\* login-required placeholder when nobody is logged in, and its stored content
\* to every logged-in viewer, author or not.
C2_RequiresAuth ==
    \A v \in Viewers : \A page \in PublicPages(v) : \A item \in Items(page) :
        Stored(item).type = "1" =>
            IF v = None
            THEN item.content = LOGIN_REQUIRED
            ELSE item.content = Stored(item).content

\* a logged-in viewer who is not the author was served the stored content
C2_Witness ==
    \E v \in Users : \E item \in ListedTo(v) :
        /\ item.type = "1" /\ item.author._id # v
        /\ item.content = Stored(item).content

\* C3: on the public listing a Public entry (type "0") is rendered the same,
\* content and title, to an absent viewer and to every present one: as stored.
C3_Public ==
    \A v, w \in Viewers, a \in Users, p \in Pages, n \in PageSizes :
        \A sorted \in sort_createdAt_desc({d \in ispeak : d.author = a}) :
            LET seen_v == get_ispeak_by_page(DB, now, CredentialsOf(v), a, p, n,
                                              sorted).resp.data.items
                seen_w == get_ispeak_by_page(DB, now, CredentialsOf(w), a, p, n,
                                              sorted).resp.data.items
            IN \A i \in DOMAIN seen_v :
                seen_v[i].type = "0" =>
                    /\ seen_v[i].content = seen_w[i].content
                    /\ seen_v[i].title = seen_w[i].title
                    /\ seen_v[i].content = Stored(seen_v[i]).content
                    /\ seen_v[i].title = Stored(seen_v[i]).title

\* nobody logged in, and a Public entry was served with its stored content
C3_Witness ==
    \E item \in ListedTo(None) :
        item.type = "0" /\ item.content = Stored(item).content

----------------------------------------------------------------------------
(* SpecOwn, the ownership scenario: the three owner-scoped collections      *)
(* under add, update and delete requests of both users                      *)

OwnIspeakBodies ==
    [content : {"c1"}, title : {"t1"}, type : {"0"}, tag : {1}, showComment : {"1"}]

TokenPatches == {NoFields, [value |-> "v2"]}

TagPatches == {NoFields, [name |-> "work"]}

\* the live sessions of both users
Sessions == {Session(u) : u \in Users}

\* ids a request may name: those the scenario can generate and one more
DocIds == 1..(MaxDocs + 1)

Inserted == ids.ispeak + ids.tokens + ids.tags

NextOwn ==
    \/ Tick
    \/ \E c \in Sessions, b \in OwnIspeakBodies :
            Inserted < MaxDocs /\ AddIspeak(c, b)
    \/ \E c \in Sessions, i \in DocIds, p \in IspeakPatches : UpdateIspeak(c, i, p)
    \/ \E c \in Sessions, i \in DocIds : DeleteIspeak(c, i)
    \/ \E c \in Sessions : Inserted < MaxDocs /\ AddToken(c, "speak", "v1")
    \/ \E c \in Sessions, i \in DocIds, p \in TokenPatches : UpdateToken(c, i, p)
    \/ \E c \in Sessions, i \in DocIds : DeleteToken(c, i)
    \/ \E c \in Sessions, b \in TagBodies : Inserted < MaxDocs /\ AddTag(c, b)
    \/ \E c \in Sessions, i \in DocIds, p \in TagPatches : UpdateTag(c, i, p)

SpecOwn == Init /\ [][NextOwn]_vars

----------------------------------------------------------------------------
(* Ownership-scoped mutation *)

\* the user a request's credentials authenticate, None when they authenticate nobody
Requester ==
    IF "credentials" \in DOMAIN resp.req /\ get_current_user(resp.req.credentials, now).ok
    THEN get_current_user(resp.req.credentials, now).user.userId
    ELSE None

\* a patch the update validation lets through: some field, and a tag that is
\* empty or a well-formed id
PatchAccepted(p) ==
    /\ DOMAIN p # {}
    /\ "tag" \in DOMAIN p => (p.tag = 0 \/ ObjectId_is_valid(p.tag))

\* C4 as stated: an update of B's entry by another requester A, with any patch,
\* is answered not-found (matchedCount = 0) and changes nothing.
C4_AnyPatchNotFound ==
    \A d \in ispeak : \A u \in Users \ {d.author} : \A p \in IspeakPatches :
        LET r == update_ispeak(DB, now, Session(u), d._id, p)
        IN r.resp.status = 404 /\ r.db = DB

\* C4, amended: an update of B's entry by another requester A changes no field
\* of any stored entry; with a patch that passes validation it matches nothing
\* (matchedCount = 0) and is answered 404 not-found, with a patch that fails
\* validation it is answered 400 before the store is asked; never a
\* permission-specific error.
C4_ForeignUpdateNotFound ==
    \A d \in ispeak : \A u \in Users \ {d.author} : \A p \in IspeakPatches :
        LET r == update_ispeak(DB, now, Session(u), d._id, p)
            s == IspeakService_update_one(DB, d._id, u, p, now)
        IN /\ r.db = DB
           /\ s.db = DB
           /\ r.resp.status \in {400, 404}
           /\ PatchAccepted(p) =>
                /\ ~s.raised /\ s.result.matchedCount = 0 /\ s.result.modifiedCount = 0
                /\ r.resp = HTTPException(404, "ispeak missing or not permitted")
           /\ ~PatchAccepted(p) => r.resp.status = 400

\* a user other than the author asked to update an existing entry and got 404
C4_Witness ==
    /\ resp.op = "update_ispeak" /\ resp.res.status = 404
    /\ Requester # None
    /\ \E d \in ispeak :
        /\ d._id = resp.req.id /\ d.author # Requester
        /\ d.content = "c1" /\ resp.req.patch = [content |-> "c2"]

\* the outcome of every delete request, by owner and by others
DeleteOutcomes ==
    /\ \A d \in ispeak : \A u \in Users :
        LET r == delete_ispeak(DB, now, Session(u), d._id)
            s == IspeakService_delete_one(DB, d._id, u)
        IN IF u = d.author
           THEN /\ s.result.deletedCount = 1
                /\ r.resp.status = 200 /\ r.resp.data.deletedCount = 1
                /\ r.db = [DB EXCEPT !.ispeak = ispeak \ {d}]
                /\ \A x \in r.db.ispeak : x._id # d._id
           ELSE /\ s.result.deletedCount = 0
                /\ r.resp.status = 404
                /\ r.db = DB
    /\ \A k \in tokens : \A u \in Users :
        LET r == delete_token(DB, now, Session(u), k._id)
            s == TokenService_delete_one(DB, k._id, u)
        IN IF u = k.user
           THEN /\ s.result.deletedCount = 1
                /\ r.resp.status = 200 /\ r.resp.data.deletedCount = 1
                /\ r.db = [DB EXCEPT !.tokens = tokens \ {k}]
                /\ \A x \in r.db.tokens : x._id # k._id
           ELSE /\ s.result.deletedCount = 0
                /\ r.resp.status = 404
                /\ r.db = DB

\* a step that removes a record is a successful delete request of its owner
RemovedByOwner ==
    /\ \A d \in ispeak :
        (\A x \in ispeak' : x._id # d._id) =>
            /\ resp'.op = "delete_ispeak" /\ resp'.req.id = d._id
            /\ resp'.res.status = 200 /\ resp'.res.data.deletedCount = 1
            /\ get_current_user(resp'.req.credentials, now).ok
            /\ get_current_user(resp'.req.credentials, now).user.userId = d.author
    /\ \A k \in tokens :
        (\A x \in tokens' : x._id # k._id) =>
            /\ resp'.op = "delete_token" /\ resp'.req.id = k._id
            /\ resp'.res.status = 200 /\ resp'.res.data.deletedCount = 1
            /\ get_current_user(resp'.req.credentials, now).ok
            /\ get_current_user(resp'.req.credentials, now).user.userId = k.user

\* C5: an ISpeak entry or API token is removed only by a delete whose requester
\* is its owner: a delete by anyone else reports deletedCount = 0 and the record
\* stays, a delete by the owner reports deletedCount = 1 and the record is gone.
C5_DeleteByOwnerOnly == []DeleteOutcomes /\ [][RemovedByOwner]_vars

\* a user other than the owner asked to delete an existing API token and got
\* 404, the token still stored
C5_Witness ==
    /\ resp.op = "delete_token" /\ resp.res.status = 404
    /\ Requester # None
    /\ \E k \in tokens : k._id = resp.req.id /\ k.user # Requester

\* the store without document d of collection coll
Without(db, coll, d) == [db EXCEPT ![coll] = @ \ {d}]

\* C6: to a requester who does not own it, a record that exists is answered
\* exactly as if it did not exist: every update and delete response for its id
\* is the same in the store and in the store without the record (ISpeak
\* entries, API tokens and tags; tags have no delete operation).
C6_Indistinguishable ==
    \A u \in Users :
        /\ \A d \in {x \in ispeak : x.author # u} :
            /\ \A p \in IspeakPatches :
                update_ispeak(DB, now, Session(u), d._id, p).resp
                    = update_ispeak(Without(DB, "ispeak", d), now, Session(u), d._id, p).resp
            /\ delete_ispeak(DB, now, Session(u), d._id).resp
                    = delete_ispeak(Without(DB, "ispeak", d), now, Session(u), d._id).resp
        /\ \A k \in {x \in tokens : x.user # u} :
            /\ \A p \in TokenPatches \cup {[title |-> k.title], [title |-> "other"]} :
                update_token(DB, now, Session(u), k._id, p).resp
                    = update_token(Without(DB, "tokens", k), now, Session(u), k._id, p).resp
            /\ delete_token(DB, now, Session(u), k._id).resp
                    = delete_token(Without(DB, "tokens", k), now, Session(u), k._id).resp
        /\ \A g \in {x \in tags : x.user # u} :
            \A p \in TagPatches \cup {[name |-> g.name], [orderNo |-> 1]} :
                update_tag(DB, now, Session(u), g._id, p).resp
                    = update_tag(Without(DB, "tags", g), now, Session(u), g._id, p).resp

\* a user other than the owner asked to rename an existing tag and got 404
C6_Witness ==
    /\ resp.op = "update_tag" /\ resp.res.status = 404
    /\ Requester # None
    /\ "name" \in DOMAIN resp.req.patch
    /\ \E g \in tags : g._id = resp.req.id /\ g.user # Requester

----------------------------------------------------------------------------
(* SpecPw, the password scenario: a password is chosen and stored as a     *)
(* digest, then a plaintext is verified against the stored digest          *)

Chars == {"a", "b"}

Strings(n) == UNION {[1..k -> Chars] : k \in 0..n}

\* passwords a user can set (the request schema refuses the empty one)
Passwords == Strings(MaxPwLen) \ {<<>>}

Salts == {"salt1", "salt2"}

\* a stored password field that is no bcrypt hash, and an empty one
MalformedDigest == [empty |-> FALSE, wellFormed |-> FALSE, salt |-> "", digest |-> <<>>]

EmptyDigest == [empty |-> TRUE, wellFormed |-> FALSE, salt |-> "", digest |-> <<>>]

\* no document stored, no request made
StoreIdle ==
    /\ ispeak = {}
    /\ tokens = {}
    /\ tags = {}
    /\ ids = [ispeak |-> 0, tokens |-> 0, tags |-> 0]
    /\ now = 0
    /\ resp = NoResp
    /\ pending = {}

OtherVarsIdle ==
    /\ StoreIdle
    /\ conn = NoScenario
    /\ users = NoScenario

InitPw ==
    /\ OtherVarsIdle
    /\ jwt = NoScenario
    /\ pw \in {[phase |-> "chosen", plain |-> p] : p \in Passwords}

\* create_one / change password: the digest hash_password makes is stored
HashPassword(salt) ==
    /\ pw.phase = "chosen"
    /\ pw' = [phase |-> "stored", plain |-> pw.plain, by |-> "hash_password",
              hashed |-> hash_password(pw.plain, salt)]
    /\ UNCHANGED <<ispeak, tokens, tags, ids, now, resp, jwt, pending, conn, users>>

\* an account carried over from the earlier deployment: plain bcrypt of the password
StoreLegacy(salt) ==
    /\ pw.phase = "chosen"
    /\ pw' = [phase |-> "stored", plain |-> pw.plain, by |-> "legacy",
              hashed |-> bcrypt_hashpw(pw.plain, salt)]
    /\ UNCHANGED <<ispeak, tokens, tags, ids, now, resp, jwt, pending, conn, users>>

\* a password field that holds no usable digest
StoreUnusable(d) ==
    /\ pw.phase = "chosen"
    /\ pw' = [phase |-> "stored", plain |-> pw.plain, by |-> "unusable", hashed |-> d]
    /\ UNCHANGED <<ispeak, tokens, tags, ids, now, resp, jwt, pending, conn, users>>

VerifyPassword(plain_password) ==
    /\ pw.phase = "stored"
    /\ pw' = [phase |-> "verified", plain |-> pw.plain, by |-> pw.by,
              hashed |-> pw.hashed, tried |-> plain_password,
              result |-> verify_password(plain_password, pw.hashed)]
    /\ UNCHANGED <<ispeak, tokens, tags, ids, now, resp, jwt, pending, conn, users>>

NextPw ==
    \/ \E salt \in Salts : HashPassword(salt)
    \/ \E salt \in Salts : StoreLegacy(salt)
    \/ \E d \in {MalformedDigest, EmptyDigest} : StoreUnusable(d)
    \/ \E q \in Strings(MaxPwLen) : VerifyPassword(q)

SpecPw == InitPw /\ [][NextPw]_vars

\* C7: for every plaintext password p, verify_password(p, hash_password(p))
\* is true.
C7_VerifyOwnHash ==
    (pw.phase = "verified" /\ pw.by = "hash_password" /\ pw.tried = pw.plain)
        => pw.result = TRUE

----------------------------------------------------------------------------
(* Bearer credentials at the guarded operations *)

\* every modelled handler behind get_current_user, on every request considered,
\* answers credentials c with 401 and returns the store as it was
GuardedRejected(c) ==
    LET rejected(r) == r.db = DB /\ r.resp = HTTPException(401, "invalid credentials")
    IN /\ \A b \in IspeakBodies : rejected(add_ispeak(DB, now, c, b, now))
       /\ \A i \in DocIds, p \in IspeakPatches : rejected(update_ispeak(DB, now, c, i, p))
       /\ \A i \in DocIds, f \in {"0", "1"} :
            rejected(update_ispeak_status(DB, now, c, i, f))
       /\ \A i \in DocIds : rejected(delete_ispeak(DB, now, c, i))
       /\ rejected(add_token(DB, now, c, "speak", "v1", now))
       /\ \A i \in DocIds, p \in TokenPatches : rejected(update_token(DB, now, c, i, p))
       /\ \A i \in DocIds : rejected(delete_token(DB, now, c, i))
       /\ \A b \in TagBodies : rejected(add_tag(DB, now, c, b, now))
       /\ \A i \in DocIds, p \in TagPatches : rejected(update_tag(DB, now, c, i, p))

\* C8: a bearer token whose signature does not match, whose structure is
\* malformed or whose expiry lies in the past fails verification with 401, and
\* every operation guarded by get_current_user then rejects the request and
\* leaves the store untouched.
C8_InvalidBearerRejected ==
    \A c \in InvalidCredentials(now) :
        /\ ~verify_token(c, now).ok /\ verify_token(c, now).status = 401
        /\ ~get_current_user(c, now).ok /\ get_current_user(c, now).status = 401
        /\ GuardedRejected(c)

\* a session that has expired was refused a post naming an existing tag, and
\* nothing was stored
C8_Witness ==
    /\ resp.op = "add_ispeak" /\ resp.res.status = 401
    /\ resp.req.credentials = StaleSession("u1") /\ now > 0
    /\ resp.req.body.tag = 1
    /\ tags # {} /\ ispeak = {}

----------------------------------------------------------------------------
(* SpecJwt, the bearer-token scenario: tokens are issued from claim sets,  *)
(* with or without an explicit validity, and verified as the clock runs    *)

UserNames == {userNameOf(u) : u \in Users}

ClaimSets == [userId : Users, userName : UserNames]

\* expires_delta: absent, zero, one time unit
Deltas == {NoDelta, 0, 1}

NoVerification == [done |-> FALSE]

InitJwt ==
    /\ OtherVarsIdle
    /\ pw = NoScenario
    /\ jwt = [phase |-> "on", issued |-> {}, last |-> NoVerification]

\* create_access_token(data, expires_delta) at the current time
IssueToken(data, expires_delta) ==
    /\ Cardinality(jwt.issued) < MaxIssued
    /\ jwt' = [jwt EXCEPT !.issued = @ \cup
                {[token |-> create_access_token(data, expires_delta, now),
                  data |-> data, expires_delta |-> expires_delta, at |-> now]}]
    /\ UNCHANGED <<ispeak, tokens, tags, ids, now, resp, pw, pending, conn, users>>

\* AuthService.create_token for a user document, at login
LoginToken(u) ==
    /\ Cardinality(jwt.issued) < MaxIssued
    /\ jwt' = [jwt EXCEPT !.issued = @ \cup
                {[token |-> create_token([_id |-> u, userName |-> userNameOf(u)], now),
                  data |-> [userId |-> u, userName |-> userNameOf(u)],
                  expires_delta |-> NoDelta, at |-> now]}]
    /\ UNCHANGED <<ispeak, tokens, tags, ids, now, resp, pw, pending, conn, users>>

\* verify_token on an issued token at the current time
VerifyToken(i) ==
    /\ i \in jwt.issued
    /\ jwt' = [jwt EXCEPT !.last = [done |-> TRUE, issued |-> i, at |-> now,
                                    result |-> verify_token(i.token, now)]]
    /\ UNCHANGED <<ispeak, tokens, tags, ids, now, resp, pw, pending, conn, users>>

TickJwt ==
    /\ jwt.phase = "on"
    /\ Tick

NextJwt ==
    \/ TickJwt
    \/ \E data \in ClaimSets, d \in Deltas : IssueToken(data, d)
    \/ \E u \in Users : LoginToken(u)
    \/ \E i \in jwt.issued : VerifyToken(i)

SpecJwt == InitJwt /\ [][NextJwt]_vars

\* C9: a token issued with ttl = 0 fails verification once at least one time
\* unit has passed since it was issued.
C9_ZeroTtlExpires ==
    (/\ jwt.last.done
     /\ jwt.last.issued.expires_delta = 0
     /\ jwt.last.at >= jwt.last.issued.at + 1)
        => ~jwt.last.result.ok

\* C10: verifying a token at the time it was issued from the claim set
\* c = {userId, userName} succeeds and yields the claims of c: the payload
\* carries c's userId and userName, and get_current_user returns exactly c.
C10_IssueVerifyRoundTrip ==
    /\ \A data \in ClaimSets, d \in Deltas :
        LET token == create_access_token(data, d, now)
            v == verify_token(token, now)
        IN /\ v.ok
           /\ [f \in DOMAIN data |-> v.payload[f]] = data
           /\ get_current_user(token, now).ok
           /\ get_current_user(token, now).user = data
    /\ \A u \in Users :
        LET token == create_token([_id |-> u, userName |-> userNameOf(u)], now)
        IN /\ get_current_user(token, now).ok
           /\ get_current_user(token, now).user = [userId |-> u, userName |-> userNameOf(u)]
    /\ (jwt.last.done /\ jwt.last.at = jwt.last.issued.at) =>
        /\ jwt.last.result.ok
        /\ jwt.last.result.payload.userId = jwt.last.issued.data.userId
        /\ jwt.last.result.payload.userName = jwt.last.issued.data.userName

\* a token issued with a validity of one time unit was verified at once, after
\* the clock had run, and gave back its claims
C10_Witness ==
    /\ jwt.last.done /\ jwt.last.at = jwt.last.issued.at /\ jwt.last.at > 0
    /\ jwt.last.issued.expires_delta = 1
    /\ jwt.last.result.ok
    /\ jwt.last.result.payload.userId = jwt.last.issued.data.userId
    /\ jwt.last.result.payload.userName = jwt.last.issued.data.userName

----------------------------------------------------------------------------
(* app/routers/ispeak.py: posting with an API token instead of a session *)

\* what find_one may return for a set of matching documents: None, or any one
FindOne(matching) ==
    IF matching = {} THEN {[ok |-> FALSE]}
    ELSE {[ok |-> TRUE, doc |-> k] : k \in matching}

\* token_info is what TokenService.validate_token(db, "speak", body.token) found
add_ispeak_by_token(db, t, body, token_info, t2) ==
    IF ~token_info.ok
    THEN [db |-> db, resp |-> HTTPException(401, "invalid token")]
    ELSE LET author_id == token_info.doc.user
             r == IspeakService_add_one(db, author_id, body.content, body.tag,
                                        body.title, body.type, body.showComment, t, t2)
         IN IF r.raised
            THEN [db |-> db, resp |-> HTTPException(400, "invalid tag id")]
            ELSE [db |-> r.db, resp |-> Success(r.result, "added")]

----------------------------------------------------------------------------
(* SpecReg, the API-token scenario: users register, retitle, revalue and   *)
(* delete API tokens, and entries are posted with a token value            *)

Titles == {"speak", "other"}

Values == {"abc123", "wrong"}

RegTokenPatches == {[title |-> "speak"], [value |-> "abc123"]}

ByTokenBodies ==
    [content : {"hi"}, title : {""}, type : {"0"}, tag : {1, BadObjectId},
     showComment : {"1"}, token : Values]

AddIspeakByToken(body) ==
    \E token_info \in FindOne(TokenService_validate_token(DB, "speak", body.token)) :
        \E t2 \in SecondRead :
            HandleAt("add_ispeak_by_token", [body |-> body, token_info |-> token_info],
                     add_ispeak_by_token(DB, now, body, token_info, t2), t2)

TokenIds == 1..(MaxTokens + 1)

NextReg ==
    \/ Tick
    \/ \E c \in Sessions, title \in Titles, value \in Values :
            /\ add_token(DB, now, c, title, value, now).db.ids.tokens <= MaxTokens
            /\ AddToken(c, title, value)
    \/ \E c \in Sessions, i \in TokenIds, p \in RegTokenPatches : UpdateToken(c, i, p)
    \/ \E c \in Sessions, i \in TokenIds : DeleteToken(c, i)
    \/ \E b \in ByTokenBodies : ids.ispeak < MaxIspeak /\ AddIspeakByToken(b)

SpecReg == Init /\ [][NextReg]_vars

\* the tokens titled "speak" that carry the value
Matching(value) == {k \in tokens : k.title = "speak" /\ k.value = value}

\* the entry a successful create inserted into db, seen from the store before
InsertedEntries(r) == r.db.ispeak \ ispeak

\* C11 as stated: with a value that matches a stored token titled "speak" the
\* create succeeds, whatever else the request carries, and the entry's author is
\* the token's owner; with a value matching no such token it fails 401 and
\* inserts nothing.
C11_MatchingValueSucceeds ==
    \A b \in ByTokenBodies :
        \A token_info \in FindOne(TokenService_validate_token(DB, "speak", b.token)) :
            LET r == add_ispeak_by_token(DB, now, b, token_info, now)
            IN IF Matching(b.token) # {}
               THEN /\ r.resp.status = 200
                    /\ \E e \in InsertedEntries(r) : e.author = token_info.doc.user
               ELSE r.resp.status = 401 /\ r.db = DB

\* C11, amended: with a value that matches a stored token titled "speak" and a
\* well-formed tag id the create succeeds, inserting exactly one entry whose
\* author is the owner of a matching token (the one find_one returned); with a
\* matching value and a malformed tag id it fails 400 and inserts nothing; with
\* a value matching no token titled "speak", also one that belongs to a token
\* with another title, it fails 401 and inserts nothing.
C11_TokenCreate ==
    \A b \in ByTokenBodies :
        \A token_info \in FindOne(TokenService_validate_token(DB, "speak", b.token)) :
            \A t2 \in SecondRead :
                LET r == add_ispeak_by_token(DB, now, b, token_info, t2)
                IN IF Matching(b.token) = {}
                   THEN /\ ~token_info.ok
                        /\ r.resp = HTTPException(401, "invalid token")
                        /\ r.db = DB
                   ELSE IF ~ObjectId_is_valid(b.tag)
                   THEN r.resp.status = 400 /\ r.db = DB
                   ELSE /\ r.resp.status = 200
                        /\ token_info.doc \in Matching(b.token)
                        /\ Cardinality(InsertedEntries(r)) = 1
                        /\ \A e \in InsertedEntries(r) :
                            /\ e.author = token_info.doc.user
                            /\ e.content = b.content
                            /\ r.resp.data = e
                        /\ r.db.tokens = tokens /\ r.db.tags = tags

\* an entry was posted with the value of u1's "speak" token while u2 held a
\* token of another title with the other value, and u1 is its author
C11_Witness ==
    /\ resp.op = "add_ispeak_by_token" /\ resp.res.status = 200
    /\ resp.req.body.token = "abc123"
    /\ \E k \in tokens : k.title = "speak" /\ k.value = "abc123" /\ k.user = "u1"
    /\ \E k \in tokens : k.title = "other" /\ k.value = "wrong" /\ k.user = "u2"
    /\ \E e \in ispeak : e.author = "u1" /\ e._id = resp.res.data._id

\* C12: no two stored API tokens have the same (owner, title) pair.
C12_OwnerTitleUnique ==
    \A k1, k2 \in tokens :
        (k1.user = k2.user /\ k1.title = k2.title) => k1._id = k2._id

\* C13: add(owner, title, value) fails with the duplicate-title error (400) and
\* leaves the store unchanged when the owner already has a token of that title;
\* otherwise it inserts exactly one token with that owner, title and value and
\* returns it.  A token of that title under another owner causes no failure.
C13_TokenAdd ==
    \A u \in Users, title \in Titles, value \in Values, t2 \in SecondRead :
        LET r == add_token(DB, now, Session(u), title, value, t2)
            s == TokenService_add_one(DB, u, title, value, now, t2)
            added == r.db.tokens \ tokens
        IN IF \E k \in tokens : k.user = u /\ k.title = title
           THEN /\ s.raised /\ s.error = "ValueError"
                /\ r.resp = HTTPException(400, "token title exists")
                /\ r.db = DB
           ELSE /\ ~s.raised
                /\ r.resp.status = 200
                /\ Cardinality(added) = 1
                /\ tokens \subseteq r.db.tokens
                /\ \A k \in added :
                    /\ k.user = u /\ k.title = title /\ k.value = value
                    /\ k._id \notin {x._id : x \in tokens}
                    /\ r.resp.data = k
                /\ r.db.ispeak = ispeak /\ r.db.tags = tags

\* a user was refused a second token of a title they hold, after the other user
\* had been given a token of that same title
C13_Witness ==
    /\ resp.op = "add_token" /\ resp.res.status = 400
    /\ Requester # None
    /\ \E k1, k2 \in tokens :
        /\ k1.user = Requester /\ k1.title = resp.req.title
        /\ k2.user # Requester /\ k2.title = resp.req.title
        /\ k1._id < k2._id

----------------------------------------------------------------------------
(* SpecTag, the tag scenario: tag create and update requests run as the    *)
(* event loop runs them, each suspended at the await between its existence *)
(* check and its write, where other requests may run                       *)

TagNames == {"life", "work"}

NamedTagBodies ==
    [name : TagNames, bgColor : {"#DB2828"}, orderNo : {0}, description : {""}]

\* rename and reorder
NamedTagPatches == {[name |-> "life"], [orderNo |-> 1]}

TagIds == 1..MaxTags

\* the store, the response and the clock after a step of a request
Respond(op, req, r, t2, stillPending) ==
    /\ ispeak' = r.db.ispeak
    /\ tokens' = r.db.tokens
    /\ tags' = r.db.tags
    /\ ids' = r.db.ids
    /\ resp' = [op |-> op, req |-> req, res |-> r.resp]
    /\ now' = t2
    /\ pending' = stillPending
    /\ UNCHANGED <<pw, jwt, conn, users>>

\* the request waits for its write
Suspend(q) ==
    /\ pending' = pending \cup {q}
    /\ UNCHANGED <<ispeak, tokens, tags, ids, now, resp, pw, jwt, conn, users>>

FreeRid == CHOOSE n \in 1..(MaxPending + 1) : \A q \in pending : q.rid # n

PendingAdds == {q \in pending : q.op = "add_tag"}

\* add_tag up to the await of find_one: refused at once, or suspended
BeginAddTag(credentials, body) ==
    LET current_user == get_current_user(credentials, now)
        req == [credentials |-> credentials, body |-> body]
    IN /\ Cardinality(pending) < MaxPending
       /\ ids.tags + Cardinality(PendingAdds) < MaxTags
       /\ current_user.ok
       /\ IF IspeakTagService_add_one_existing(DB, current_user.user.userId, body.name) # {}
          THEN Respond("add_tag", req,
                       [db |-> DB, resp |-> HTTPException(400, "tag name exists")],
                       now, pending)
          ELSE Suspend([rid |-> FreeRid, op |-> "add_tag", req |-> req,
                        user |-> current_user.user.userId])

\* add_tag from the await on: stamp, insert, answer
FinishAddTag(q) ==
    /\ q.op = "add_tag"
    /\ \E t2 \in SecondRead :
        LET b == q.req.body
            r == IspeakTagService_add_one_insert(DB, q.user, b.name, b.bgColor, b.orderNo,
                                                 b.description, now, t2)
        IN Respond("add_tag", q.req, [db |-> r.db, resp |-> Success(r.result, "added")],
                   t2, pending \ {q})

\* update_tag up to the await of find_one
BeginUpdateTag(credentials, id, patch) ==
    LET current_user == get_current_user(credentials, now)
        req == [credentials |-> credentials, id |-> id, patch |-> patch]
    IN /\ Cardinality(pending) < MaxPending
       /\ current_user.ok
       /\ IF DOMAIN patch = {}
          THEN Respond("update_tag", req,
                       [db |-> DB, resp |-> HTTPException(400, "no update fields")],
                       now, pending)
          ELSE IF IspeakTagService_update_one_existing(DB, id, current_user.user.userId,
                                                       patch) # {}
          THEN Respond("update_tag", req,
                       [db |-> DB, resp |-> HTTPException(400, "tag name exists")],
                       now, pending)
          ELSE Suspend([rid |-> FreeRid, op |-> "update_tag", req |-> req,
                        user |-> current_user.user.userId])

\* update_tag from the await on: stamp, update_one, answer
FinishUpdateTag(q) ==
    /\ q.op = "update_tag"
    /\ LET r == IspeakTagService_update_one_write(DB, q.req.id, q.user, q.req.patch, now)
           res == IF r.result.matchedCount = 0
                  THEN HTTPException(404, "tag missing or not permitted")
                  ELSE IF r.result.modifiedCount = 0
                  THEN Success(r.result, "nothing modified")
                  ELSE Success(r.result, "updated")
       IN Respond("update_tag", q.req, [db |-> r.db, resp |-> res], now, pending \ {q})

NextTag ==
    \/ Tick
    \/ \E c \in Sessions, b \in NamedTagBodies : BeginAddTag(c, b)
    \/ \E q \in pending : FinishAddTag(q)
    \/ \E c \in Sessions, i \in TagIds, p \in NamedTagPatches : BeginUpdateTag(c, i, p)
    \/ \E q \in pending : FinishUpdateTag(q)

SpecTag == Init /\ [][NextTag]_vars

\* C14: creating a tag whose (owner, name) equals that of an existing tag fails
\* with the conflict error, surfaced as a 400 client error, and inserts nothing;
\* a creation with a name the owner does not hold yet succeeds and inserts the
\* tag.
C14_DuplicateTagRefused ==
    \A u \in Users, b \in NamedTagBodies, t2 \in SecondRead :
        LET r == add_tag(DB, now, Session(u), b, t2)
            s == IspeakTagService_add_one(DB, u, b.name, b.bgColor, b.orderNo,
                                          b.description, now, t2)
        IN IF \E g \in tags : g.user = u /\ g.name = b.name
           THEN /\ s.raised /\ s.error = "ValueError"
                /\ r.resp = HTTPException(400, "tag name exists")
                /\ r.db = DB
           ELSE /\ ~s.raised
                /\ r.resp.status = 200
                /\ Cardinality(r.db.tags \ tags) = 1
                /\ \A g \in r.db.tags \ tags :
                    g.user = u /\ g.name = b.name /\ r.resp.data = g
                /\ tags \subseteq r.db.tags

\* the owner of a tag named "life" asked to create a tag named "life" again and
\* was refused, the store holding that one tag
C14_Witness ==
    /\ resp.op = "add_tag" /\ resp.res.status = 400
    /\ resp.req.body.name = "life"
    /\ Requester = "u1"
    /\ pending = {}
    /\ Cardinality(tags) = 1
    /\ \E g \in tags : g.user = "u1" /\ g.name = "life"

\* C15: no two tags of the same owner have the same name, in every state any
\* interleaving of tag create and tag update requests reaches.
C15_OwnerNameUnique ==
    \A g1, g2 \in tags :
        (g1.user = g2.user /\ g1.name = g2.name) => g1._id = g2._id

----------------------------------------------------------------------------
(* Creation and status updates of entries *)

\* C16: every stored entry carries a tag that existed in the tag store when the
\* entry was created (tags are never deleted, so it still exists), and a create
\* with a well-formed tag id that references no tag is not answered with
\* success.
C16_TagExistsAtCreate ==
    /\ \A e \in ispeak : \E g \in tags : g._id = e.tag /\ g.createdAt <= e.createdAt
    /\ (/\ resp.op = "add_ispeak"
        /\ ObjectId_is_valid(resp.req.body.tag)
        /\ ~\E g \in tags : g._id = resp.req.body.tag)
            => resp.res.status # 200

\* C17: a create with a tag id that is no valid reference is answered 400 and
\* inserts nothing; a successful create inserts an entry whose author is the
\* requester and whose createdAt equals its updatedAt.
C17_CreateStamps ==
    (resp.op = "add_ispeak" /\ resp.req.credentials \in Sessions) =>
        IF ~ObjectId_is_valid(resp.req.body.tag)
        THEN /\ resp.res = HTTPException(400, "invalid tag id")
             /\ ids.ispeak = Cardinality(ispeak)
        ELSE /\ resp.res.status = 200
             /\ resp.res.data \in ispeak
             /\ resp.res.data.author = Requester
             /\ resp.res.data.createdAt = resp.res.data.updatedAt

\* the flags showComment takes
Flags == {"0", "1"}

\* C18: when the author calls update_status on an existing entry twice in a row
\* with the same flag, the second call, made at the same time or later, reports
\* matchedCount = 1 and modifiedCount = 0.
C18_StatusIdempotent ==
    \A d \in ispeak, f \in Flags, t \in SecondRead :
        LET first == update_ispeak_status(DB, now, Session(d.author), d._id, f)
            second == update_ispeak_status(first.db, t, Session(d.author), d._id, f)
        IN /\ second.resp.status = 200
           /\ second.resp.data.matchedCount = 1
           /\ second.resp.data.modifiedCount = 0

----------------------------------------------------------------------------
(* SpecList, the paging scenario: two authors post public entries as the   *)
(* clock runs and anyone reads the pages of an author's listing            *)

ListBodies ==
    [content : {"c1"}, title : {"t1"}, type : {"0"}, tag : {1}, showComment : {"1"}]

ListPages == {1, 2, 3}

NextList ==
    \/ Tick
    \/ \E c \in Sessions, b \in ListBodies : ids.ispeak < MaxList /\ AddIspeak(c, b)
    \/ \E a \in Users, p \in ListPages, n \in PageSizes :
            GetIspeakByPage(NoCredentials, a, p, n)

SpecList == Init /\ [][NextList]_vars

Max(a, b) == IF a > b THEN a ELSE b

EntriesOf(a) == {d \in ispeak : d.author = a}

\* C19: the listing of an author's page reports as total the number of stored
\* entries of that author, and as items the entries at offsets (page-1)*pageSize
\* up to page*pageSize of the author's entries by createdAt descending:
\* min(pageSize, max(0, total-(page-1)*pageSize)) items, none of another
\* author, none twice, newest first, each at a position its createdAt allows.
C19_PageOfAuthor ==
    \A v \in Viewers, a \in Users, p \in ListPages, n \in PageSizes :
        \A sorted \in sort_createdAt_desc(EntriesOf(a)) :
            LET page == get_ispeak_by_page(DB, now, CredentialsOf(v), a, p, n, sorted)
                            .resp.data
                total == Cardinality(EntriesOf(a))
                skip == (p - 1) * n
                items == page.items
            IN /\ page.total = total
               /\ Len(items) = Min(n, Max(0, total - skip))
               /\ \A i \in DOMAIN items :
                    /\ \E d \in EntriesOf(a) : d._id = items[i]._id
                    /\ items[i].createdAt = Stored(items[i]).createdAt
                    /\ items[i].author._id = a
                    /\ Cardinality({d \in EntriesOf(a) :
                                        d.createdAt > items[i].createdAt}) <= skip + i - 1
                    /\ Cardinality({d \in EntriesOf(a) :
                                        d.createdAt >= items[i].createdAt}) >= skip + i
               /\ \A i, j \in DOMAIN items :
                    i < j => /\ items[i].createdAt >= items[j].createdAt
                             /\ items[i]._id # items[j]._id

\* the second page of size 1 of an author with two entries of different age was
\* read while the other author had an entry too: total 2 and the older entry
C19_Witness ==
    /\ resp.op = "get_ispeak_by_page"
    /\ resp.req.page = 2 /\ resp.req.pageSize = 1
    /\ resp.res.data.total = 2
    /\ Len(resp.res.data.items) = 1
    /\ Cardinality(ispeak) = 3
    /\ \E d \in EntriesOf(resp.req.author) :
        d.createdAt > resp.res.data.items[1].createdAt

----------------------------------------------------------------------------
(* The frame of a redaction *)

\* the entry of the listing as the pipeline renders it, before the policy
Rendered(item) == project_public(DB, Stored(item))

\* the policy redacts the entry for viewer v
Redacts(v, d) ==
    \/ d.type = "1" /\ v = None
    \/ d.type = "2" /\ v # d.author

Placeholder(d) == IF d.type = "1" THEN LOGIN_REQUIRED ELSE AUTHOR_ONLY

\* C20 as stated: a redacted entry has its content and its title both replaced
\* with the placeholder of its tier, every other field unchanged.
C20_TitleIsPlaceholder ==
    \A v \in Viewers : \A page \in PublicPages(v) : \A item \in Items(page) :
        Redacts(v, Stored(item)) =>
            item = [Rendered(item) EXCEPT !.content = Placeholder(Stored(item)),
                                          !.title = Placeholder(Stored(item))]

\* C20, amended: a redacted entry has its content replaced with the placeholder
\* of its tier and its title with the empty string, and every other field (id,
\* type, tag, author, showComment, createdAt, updatedAt) is as rendered without
\* the policy; an entry the policy does not redact is rendered unchanged.
C20_RedactionFrame ==
    \A v \in Viewers : \A page \in PublicPages(v) : \A item \in Items(page) :
        IF Redacts(v, Stored(item))
        THEN /\ item = [Rendered(item) EXCEPT !.content = Placeholder(Stored(item)),
                                              !.title = ""]
             /\ item.content # Stored(item).content
             /\ \A f \in DOMAIN item \ {"content", "title"} : item[f] = Rendered(item)[f]
        ELSE item = Rendered(item)

\* an absent viewer was served a login-required entry: placeholder content, no
\* title, the other fields those of the stored entry
C20_Witness ==
    /\ resp.op = "get_ispeak_by_page" /\ resp.res.data.isLogin = None
    /\ \E item \in Items(resp.res.data) :
        /\ Stored(item).type = "1" /\ Stored(item).title = "t1"
        /\ item.title = "" /\ item.content = LOGIN_REQUIRED
        /\ item.createdAt = Stored(item).createdAt /\ item.type = "1"
        /\ item.tag = tagInfo(DB, Stored(item).tag)

----------------------------------------------------------------------------
(* app/services/ispeak_service.py and app/routers/ispeak.py: the lookup of  *)
(* one entry by its id, and the admin listing                               *)

\* a lookup that passes the entry through the visibility policy, as for a
\* viewer who is not logged in
IspeakService_find_by_id_redacting(db, ispeak_id) ==
    IF ~ObjectId_is_valid(ispeak_id)
    THEN [raised |-> TRUE, error |-> "InvalidId"]
    ELSE LET found == {d \in db.ispeak : d._id = ispeak_id}
         IN IF found = {} THEN [raised |-> FALSE, ok |-> FALSE]
            ELSE LET d == CHOOSE x \in found : TRUE
                     shown == IspeakService_process_visibility(
                                  [d EXCEPT !.author = authorInfo(d.author)], None)
                 IN [raised |-> FALSE, ok |-> TRUE,
                     doc |-> [d EXCEPT !.content = shown.content,
                                       !.title = shown.title]]

\* find_one({"_id": ObjectId(ispeak_id)}): ObjectId() raises InvalidId on a
\* string that is no ObjectId; the document comes back as stored
IspeakService_find_by_id(db, ispeak_id) ==
    IF ~ObjectId_is_valid(ispeak_id)
    THEN [raised |-> TRUE, error |-> "InvalidId"]
    ELSE LET found == {d \in db.ispeak : d._id = ispeak_id}
         IN IF found = {} THEN [raised |-> FALSE, ok |-> FALSE]
            ELSE [raised |-> FALSE, ok |-> TRUE, doc |-> CHOOSE x \in found : TRUE]

\* the answer to an exception no handler catches
InternalServerError == HTTPException(500, "Internal Server Error")

\* the route takes no credentials
get_ispeak_by_id(db, id) ==
    LET r == IspeakService_find_by_id(db, id)
    IN IF r.raised THEN [db |-> db, resp |-> InternalServerError]
       ELSE IF ~r.ok THEN [db |-> db, resp |-> HTTPException(404, "ispeak missing")]
       ELSE [db |-> db, resp |-> Success(r.doc, "ok")]

\* $lookup + $unwind(preserveNullAndEmptyArrays) without a $project: the whole
\* tag document, or no field when the reference dangles
lookup_tag(db, tag) ==
    LET found == {g \in db.tags : g._id = tag}
    IN IF found = {} THEN NoFields ELSE CHOOSE x \in found : TRUE

\* an author filter that is no ObjectId string
BadUserId == "not-an-object-id"

\* order: the order a $sort by createdAt descending gives the collection; the
\* $match stage keeps the author's documents of it
IspeakService_get_by_page_admin(db, page, page_size, author, order) ==
    IF author = BadUserId
    THEN [raised |-> TRUE, error |-> "InvalidId"]
    ELSE LET match(d) == falsy(author) \/ d.author = author
             total == Cardinality({d \in db.ispeak : match(d)})
             skip == (page - 1) * page_size
             page_docs == skip_limit(SelectSeq(order, match), skip, page_size)
             items == [i \in DOMAIN page_docs |->
                          [doc |-> page_docs[i],
                           authorInfo |-> authorInfo(page_docs[i].author),
                           tagInfo |-> lookup_tag(db, page_docs[i].tag)]]
         IN [raised |-> FALSE, result |-> [total |-> total, items |-> items]]

\* a listing that always answers with the requester's own entries
get_ispeak_by_page_admin_own_only(db, t, credentials, page, pageSize, author, order) ==
    LET current_user == get_current_user(credentials, t)
    IN IF ~current_user.ok
       THEN [db |-> db, resp |-> HTTPException(current_user.status, current_user.detail)]
       ELSE LET r == IspeakService_get_by_page_admin(db, page, pageSize,
                                                     current_user.user.userId, order)
            IN [db |-> db, resp |-> Success(r.result, "ok")]

get_ispeak_by_page_admin(db, t, credentials, page, pageSize, author, order) ==
    LET current_user == get_current_user(credentials, t)
    IN IF ~current_user.ok
       THEN [db |-> db, resp |-> HTTPException(current_user.status, current_user.detail)]
       ELSE LET author_id == IF falsy(author) THEN current_user.user.userId ELSE author
                r == IspeakService_get_by_page_admin(db, page, pageSize, author_id, order)
            IN IF r.raised THEN [db |-> db, resp |-> InternalServerError]
               ELSE [db |-> db, resp |-> Success(r.result, "ok")]

----------------------------------------------------------------------------
(* SpecRead, the read scenario: users post entries of every tier and change *)
(* the tier, and the entries are read through the three read paths: the     *)
(* public listing, the lookup by id and the admin listing                   *)

ReadBodies ==
    [content : {"c1"}, title : {"t1"}, type : Types, tag : {1}, showComment : {"1"}]

ReadPatches == {[type |-> "9"], [type |-> "2"]}

ReadIds == {BadObjectId} \cup 1..(MaxRead + 1)

AuthorFilters == Users \cup {None, BadUserId}

GetIspeakById(id) ==
    Handle("get_ispeak_by_id", [id |-> id], get_ispeak_by_id(DB, id))

GetIspeakByPageAdmin(credentials, page, pageSize, author) ==
    \E order \in sort_createdAt_desc(ispeak) :
        Handle("get_ispeak_by_page_admin",
               [credentials |-> credentials, page |-> page, pageSize |-> pageSize,
                author |-> author],
               get_ispeak_by_page_admin(DB, now, credentials, page, pageSize, author,
                                        order))

NextRead ==
    \/ Tick
    \/ \E c \in Sessions, b \in ReadBodies : ids.ispeak < MaxRead /\ AddIspeak(c, b)
    \/ \E c \in Sessions, i \in 1..MaxRead, p \in ReadPatches : UpdateIspeak(c, i, p)
    \/ \E c \in RequestCredentials \cup {NoCredentials}, a \in Users,
          p \in Pages, n \in PageSizes :
            GetIspeakByPage(c, a, p, n)
    \/ \E i \in ReadIds : GetIspeakById(i)
    \/ \E c \in RequestCredentials, p \in Pages, n \in PageSizes, a \in AuthorFilters :
            GetIspeakByPageAdmin(c, p, n, a)

SpecRead == Init /\ [][NextRead]_vars

----------------------------------------------------------------------------
(* The read paths without a visibility policy *)

\* C21: the lookup of one entry by id takes no credential and applies no
\* visibility policy: for an existing entry of any tier, AuthorOnly included,
\* it answers an unauthenticated caller with the entry as stored, content and
\* title unredacted; it answers not-found only when no entry has that id.
C21_FindByIdUnredacted ==
    \A i \in ReadIds :
        LET r == get_ispeak_by_id(DB, i)
            found == {d \in ispeak : d._id = i}
        IN /\ r.db = DB
           /\ \A d \in found :
                /\ r.resp.status = 200
                /\ r.resp.data = d
                /\ r.resp.data.content = d.content /\ r.resp.data.title = d.title
           /\ r.resp.status = 404 => found = {}
           /\ IspeakService_find_by_id(DB, i).raised \/ found # {}
              \/ r.resp.status = 404

\* an AuthorOnly entry was looked up by id, and answered with its stored
\* content and title
C21_Witness ==
    /\ resp.op = "get_ispeak_by_id" /\ resp.res.status = 200
    /\ \E d \in ispeak :
        /\ d._id = resp.req.id /\ d.type = "2"
        /\ resp.res.data.content = d.content /\ d.content = "c1"
        /\ resp.res.data.title = d.title /\ d.title = "t1"

\* the documents of a page of the admin listing
AdminDocs(result) == {result.items[i].doc : i \in DOMAIN result.items}

\* C22: the admin listing applies no visibility filtering and does not restrict
\* the author filter to the requester: a requester with a valid session who
\* names another user as the author receives that user's entries of every tier,
\* AuthorOnly included, as stored.
C22_AdminListsAnyAuthor ==
    \A A, B \in Users : A # B =>
        \A n \in PageSizes, order \in sort_createdAt_desc(ispeak) :
            LET page(p) == get_ispeak_by_page_admin(DB, now, Session(A), p, n, B, order)
            IN /\ \A p \in 1..MaxRead :
                    /\ page(p).db = DB /\ page(p).resp.status = 200
                    /\ page(p).resp.data.total = Cardinality(EntriesOf(B))
                    /\ AdminDocs(page(p).resp.data) \subseteq EntriesOf(B)
               /\ UNION {AdminDocs(page(p).resp.data) : p \in 1..MaxRead} = EntriesOf(B)

\* u1 listed the entries of u2 and was served an AuthorOnly entry of u2 with
\* its stored content
C22_Witness ==
    /\ resp.op = "get_ispeak_by_page_admin" /\ resp.res.status = 200
    /\ resp.req.credentials = Session("u1") /\ resp.req.author = "u2"
    /\ \E d \in AdminDocs(resp.res.data) :
        d \in ispeak /\ d.author = "u2" /\ d.type = "2" /\ d.content = "c1"

----------------------------------------------------------------------------
(* app/database.py: the module globals _client, _db and _initializing, and  *)
(* the coroutines that ask for the storage handle.  A coroutine runs until  *)
(* it awaits; a client and its database handle are numbered in the order    *)
(* the clients are created.                                                 *)

\* None, where a client or a handle is expected
NoHandle == 0

Callers == 1..MaxCallers

\* AsyncIOMotorClient(...) and _db = _client[DATABASE_NAME]
create_client(g) ==
    [g EXCEPT !.created = @ + 1, !.client = g.created + 1, !.db = g.created + 1]

\* get_db_async: _db = await ensure_connection(); return _db
get_db_async_return(g, c, handle) ==
    [g EXCEPT !.db = handle, !.pc[c] = [at |-> "returned", handle |-> handle]]

\* ensure_connection from the try to the awaited ping
ensure_connection_try(g, c) ==
    LET g1 == create_client([g EXCEPT !.initializing = TRUE])
    IN [g1 EXCEPT !.pc[c] = [at |-> "pinging", handle |-> g1.client]]

\* an entry that goes to the try whatever the globals hold
ensure_connection_enter_unguarded(g, c) == ensure_connection_try(g, c)

\* ensure_connection from its entry to its first await, or to its return
ensure_connection_enter(g, c) ==
    IF g.client # NoHandle /\ g.db # NoHandle
    THEN get_db_async_return(g, c, g.db)
    ELSE IF g.initializing
    THEN [g EXCEPT !.pc[c] = [at |-> "waiting", handle |-> NoHandle]]
    ELSE ensure_connection_try(g, c)

\* after the wait for another coroutine's initialization
ensure_connection_after_wait(g, c) ==
    IF g.db # NoHandle THEN get_db_async_return(g, c, g.db)
    ELSE ensure_connection_try(g, c)

\* the outcomes of await asyncio.wait_for(_client.admin.command('ping'), 5.0)
PingOutcomes == {"ok", "TimeoutError", "ServerSelectionTimeoutError"}

\* ensure_connection from the end of the ping to its return or raise, and the
\* except clause of get_db_async
ensure_connection_after_ping(g, c, outcome) ==
    IF outcome = "ok"
    THEN get_db_async_return([g EXCEPT !.initializing = FALSE,
                                       !.checked = @ \cup {g.pc[c].handle}],
                             c, g.db)
    ELSE [g EXCEPT !.client = NoHandle, !.db = NoHandle, !.initializing = FALSE,
                   !.failed = @ \cup {g.pc[c].handle},
                   !.pc[c] = [at |-> "raised", handle |-> NoHandle]]

\* get_database: the synchronous initialization, without a ping
get_database(g, c) ==
    LET g1 == IF g.db = NoHandle /\ g.client = NoHandle THEN create_client(g) ELSE g
    IN [g1 EXCEPT !.pc[c] = [at |-> "returned", handle |-> g1.db]]

----------------------------------------------------------------------------
(* SpecDb, the connection scenario: coroutines ask for the storage handle,  *)
(* some while the initialization another one started is awaiting its ping   *)

InitDb ==
    /\ StoreIdle
    /\ pw = NoScenario
    /\ jwt = NoScenario
    /\ users = NoScenario
    /\ conn = [phase |-> "on", client |-> NoHandle, db |-> NoHandle,
               initializing |-> FALSE, created |-> 0, checked |-> {}, failed |-> {},
               pc |-> [c \in Callers |-> [at |-> "idle", handle |-> NoHandle]]]

Suspended(c) == conn.pc[c].at \in {"waiting", "pinging"}

ConnStep(g) ==
    /\ g.created <= MaxClients
    /\ conn' = g
    /\ UNCHANGED <<ispeak, tokens, tags, ids, now, resp, pw, jwt, pending, users>>

\* a request, or the startup, calls get_db_async
GetDbAsync(c) ==
    /\ ~Suspended(c)
    /\ ConnStep(ensure_connection_enter(conn, c))

\* the event loop resumes a coroutine whose await is over: the ping has an
\* outcome, or the initialization waited for has ended
Resume(c, outcome) ==
    /\ Suspended(c)
    /\ IF conn.pc[c].at = "pinging"
       THEN ConnStep(ensure_connection_after_ping(conn, c, outcome))
       ELSE ~conn.initializing /\ ConnStep(ensure_connection_after_wait(conn, c))

GetDatabase(c) ==
    /\ ~Suspended(c)
    /\ ConnStep(get_database(conn, c))

NextDb ==
    \/ \E c \in Callers : GetDbAsync(c)
    \/ \E c \in Callers, outcome \in PingOutcomes : Resume(c, outcome)
    \/ \E c \in Callers : GetDatabase(c)

SpecDb == InitDb /\ [][NextDb]_vars

----------------------------------------------------------------------------
(* First use of the storage connection *)

\* C23: under any interleaving of concurrent first-use calls no caller is
\* returned a half-initialized handle: a caller arriving while another caller's
\* initialization is in progress never receives the handle of a connection
\* whose connectivity check later fails or times out.
C23_NoHalfInitializedHandle ==
    \A c \in Callers :
        conn.pc[c].at = "returned" => conn.pc[c].handle \notin conn.failed

\* a handle is established: set, and no initialization is in progress
Established == conn.db # NoHandle /\ ~conn.initializing

\* at most one initialization is in progress, and every client but one was
\* dropped by an initialization that failed
NoDuplicateClients ==
    /\ Cardinality({c \in Callers : conn.pc[c].at = "pinging"}) <= 1
    /\ conn.created <= Cardinality(conn.failed) + 1
    /\ conn.client \in {NoHandle, conn.created} /\ conn.db = conn.client

\* once a handle is established, a call returns it and creates no client
EstablishedHandleKept ==
    Established =>
        /\ conn'.db = conn.db /\ conn'.client = conn.client
        /\ conn'.created = conn.created
        /\ \A c \in Callers :
            conn'.pc[c] # conn.pc[c] =>
                conn'.pc[c] = [at |-> "returned", handle |-> conn.db]

\* C24: initialization is idempotent and creates no duplicate connections:
\* under any interleaving of concurrent callers at most one client is created
\* per successful initialization, and once a handle is established every later
\* call returns that same handle without creating another client.
C24_InitIdempotent == []NoDuplicateClients /\ [][EstablishedHandleKept]_vars

\* three callers overlapped on first use: one client was created, its check
\* succeeded, and all three hold its handle
C24_Witness ==
    /\ conn.phase = "on" /\ Established
    /\ conn.created = 1 /\ conn.checked = {1}
    /\ \A c \in Callers : conn.pc[c] = [at |-> "returned", handle |-> 1]

----------------------------------------------------------------------------
(* app/services/user_service.py, app/services/auth_service.py and          *)
(* app/routers/user.py: login and the change of a password.  docs is the    *)
(* USERS collection.                                                        *)

\* UserService.find_by_id(db, user_id, include_password=True)
UserService_find_by_id(docs, user_id) == FindOne({d \in docs : d._id = user_id})

\* update_one({"_id": ObjectId(user_id)}, {"$set": {password, updatedAt}})
UserService_update_password(docs, user_id, hashed_password, t) ==
    LET result == mongo_update_one(docs, user_id, "_id", user_id,
                                   [password |-> hashed_password, updatedAt |-> t])
    IN [docs |-> result.coll,
        result |-> [matchedCount |-> result.matched_count,
                    modifiedCount |-> result.modified_count]]

\* user: what UserService.find_one({"userName": username}) found; any
\* exception inside is answered with None
AuthService_validate_user(username, password, user) ==
    IF username = "" \/ password = <<>> THEN [ok |-> FALSE]
    ELSE IF ~user.ok THEN [ok |-> FALSE]
    ELSE IF ~verify_password(password, user.doc.password) THEN [ok |-> FALSE]
    ELSE user

login(docs, t, credentials, found) ==
    LET user == AuthService_validate_user(credentials.username, credentials.password,
                                          found)
    IN IF ~user.ok
       THEN [docs |-> docs, resp |-> HTTPException(401, "wrong user name or password")]
       ELSE [docs |-> docs,
             resp |-> Success([token |-> create_token(user.doc, t),
                               userId |-> user.doc._id,
                               userName |-> user.doc.userName], "logged in")]

\* salt: the salt pwd_context.hash draws for the new digest
change_password(docs, t, credentials, password_data, salt) ==
    LET current_user == get_current_user(credentials, t)
    IN IF ~current_user.ok
       THEN [docs |-> docs,
             resp |-> HTTPException(current_user.status, current_user.detail)]
       ELSE IF password_data.password # password_data.rpassword
       THEN [docs |-> docs, resp |-> HTTPException(400, "passwords differ")]
       ELSE LET user == CHOOSE x \in UserService_find_by_id(docs, current_user.user.userId) : TRUE
            IN IF ~user.ok
               THEN [docs |-> docs, resp |-> HTTPException(404, "no such user")]
               ELSE IF ~verify_password(password_data.oldPassword, user.doc.password)
               THEN [docs |-> docs, resp |-> HTTPException(400, "old password incorrect")]
               ELSE LET hashed_password == hash_password(password_data.password, salt)
                        r == UserService_update_password(docs, current_user.user.userId,
                                                         hashed_password, t)
                    IN IF r.result.modifiedCount = 1
                       THEN [docs |-> r.docs, resp |-> Success("changed", "ok")]
                       ELSE [docs |-> r.docs, resp |-> HTTPException(500, "change failed")]

----------------------------------------------------------------------------
(* SpecLogin, the login scenario: one account, as the collection may hold   *)
(* it: its digest made by the deployment this one replaces (bcrypt of the   *)
(* password), made by hash_password, or no usable digest.  Its owner and    *)
(* others log in and change the password.                                   *)

StoredDigests ==
    {bcrypt_hashpw(p, s) : p \in Passwords, s \in Salts}
    \cup {hash_password(p, s) : p \in Passwords, s \in Salts}
    \cup {MalformedDigest, EmptyDigest}

InitLogin ==
    /\ StoreIdle
    /\ pw = NoScenario
    /\ jwt = NoScenario
    /\ conn = NoScenario
    /\ users \in {[phase |-> "on",
                   docs |-> {[_id |-> "u1", userName |-> userNameOf("u1"),
                              password |-> d, updatedAt |-> 0]}] :
                  d \in StoredDigests}

\* the collection and the last response after a request to a user route
UserStep(op, req, r) ==
    /\ users' = [users EXCEPT !.docs = r.docs]
    /\ resp' = [op |-> op, req |-> req, res |-> r.resp]
    /\ UNCHANGED <<ispeak, tokens, tags, ids, now, pw, jwt, pending, conn>>

Login(credentials) ==
    \E found \in FindOne({d \in users.docs : d.userName = credentials.username}) :
        UserStep("login", credentials, login(users.docs, now, credentials, found))

\* a bcrypt salt is 128 random bits: the one drawn is not the stored one
ChangePassword(credentials, password_data) ==
    \E salt \in Salts :
        /\ \A d \in users.docs : d.password.salt # salt
        /\ UserStep("change_password",
                    [credentials |-> credentials, body |-> password_data],
                    change_password(users.docs, now, credentials, password_data, salt))

LoginBodies == [username : UserNames, password : Passwords]

NewPasswords == {<<"b">>, <<"a", "b">>}

ChangeBodies ==
    [oldPassword : Passwords, password : NewPasswords, rpassword : NewPasswords]

NextLogin ==
    \/ users.phase = "on" /\ Tick
    \/ \E b \in LoginBodies : Login(b)
    \/ \E c \in RequestCredentials, b \in ChangeBodies : ChangePassword(c, b)

SpecLogin == InitLogin /\ [][NextLogin]_vars

----------------------------------------------------------------------------
(* Passwords at login and at the change of a password *)

\* find_one's answer when it found document d
Found(d) == [ok |-> TRUE, doc |-> d]

WrongCredentials == HTTPException(401, "wrong user name or password")

\* C25: password verification never propagates an error: for every plaintext
\* and every stored digest, an empty or malformed one and a failure of the
\* hash primitive included, verify_password answers false instead of raising,
\* and login then answers with the ordinary wrong-credentials outcome.
C25_VerifyNeverRaises ==
    \A d \in users.docs, q \in Strings(MaxPwLen) :
        LET matches == verify_password(q, d.password)
            answer == login(users.docs, now, [username |-> d.userName, password |-> q],
                            Found(d))
        IN /\ matches \in BOOLEAN
           /\ (d.password.empty \/ bcrypt_checkpw(q, d.password).raised) => ~matches
           /\ ~matches => answer.resp = WrongCredentials /\ answer.docs = users.docs

\* the owner of an account whose digest is no bcrypt hash tried to log in and
\* was answered as for a wrong password
C25_Witness ==
    /\ resp.op = "login" /\ resp.res = WrongCredentials
    /\ \E d \in users.docs :
        /\ d.userName = resp.req.username /\ d.password = MalformedDigest
        /\ bcrypt_checkpw(resp.req.password, d.password).raised

\* C26: after a password change succeeded for a user with new password p, a
\* login with the user's name and p authenticates, and a second password
\* change presenting p as the old password is accepted.
C26_NewPasswordWorks ==
    (resp.op = "change_password" /\ resp.res.status = 200) =>
        LET p == resp.req.body.password
            c == resp.req.credentials
        IN \A d \in {x \in users.docs : x._id = c.payload.userId} :
            /\ login(users.docs, now, [username |-> d.userName, password |-> p],
                     Found(d)).resp.status = 200
            /\ \A np \in NewPasswords, salt \in Salts \ {d.password.salt} :
                change_password(users.docs, now, Session(d._id),
                                [oldPassword |-> p, password |-> np, rpassword |-> np],
                                salt).resp.status = 200

----------------------------------------------------------------------------
(* The owner a token value stands for *)

\* C27: a token value presented to the post-by-token operation identifies at
\* most one user: no two tokens titled "speak" that belong to different owners
\* hold the same value.
C27_SpeakValueOneOwner ==
    \A k1, k2 \in tokens :
        (k1.title = "speak" /\ k2.title = "speak" /\ k1.value = k2.value)
            => k1.user = k2.user

----------------------------------------------------------------------------
(* Tiers the policy does not know, and credentials it cannot verify, on the *)
(* public listing                                                           *)

KnownTypes == {"0", "1", "2"}

\* C28: the visibility tier is an unconstrained string at create and update,
\* and the policy fails open: an entry whose stored type is none of "0", "1",
\* "2" is rendered on the public listing with its stored content and title to
\* every viewer, an absent one included.
C28_UnknownTierShown ==
    /\ \A v \in Viewers : \A page \in PublicPages(v) : \A item \in Items(page) :
        Stored(item).type \notin KnownTypes =>
            /\ item.content = Stored(item).content
            /\ item.title = Stored(item).title
    /\ \A c \in Sessions, b \in ReadBodies :
        LET r == add_ispeak(DB, now, c, b, now)
        IN r.resp.status = 200 /\ \A d \in r.db.ispeak \ ispeak : d.type = b.type
    /\ \A d \in ispeak, ty \in Types \ KnownTypes :
        LET r == update_ispeak(DB, now, Session(d.author), d._id, [type |-> ty])
        IN /\ r.resp.status = 200
           /\ \E e \in r.db.ispeak : e._id = d._id /\ e.type = ty

\* nobody logged in, and an entry whose tier was set to "9" by an update was
\* served with its stored content and title
C28_Witness ==
    \E item \in ListedTo(None) :
        /\ Stored(item).type = "9" /\ Stored(item).updatedAt > Stored(item).createdAt
        /\ item.content = "c1" /\ item.title = "t1"

\* C29: on the public listing a bearer credential that is present but invalid
\* or expired never causes an unauthorized error: the request is served as for
\* an absent viewer (RequiresAuth and AuthorOnly entries redacted, the viewer
\* id null), whereas the same credential on a mutation or on the admin listing
\* is rejected.
C29_InvalidBearerIsAbsentViewer ==
    \A c \in InvalidCredentials(now) :
        /\ \A a \in Users, p \in Pages, n \in PageSizes :
            \A sorted \in sort_createdAt_desc({d \in ispeak : d.author = a}) :
                LET r == get_ispeak_by_page(DB, now, c, a, p, n, sorted)
                IN /\ r = get_ispeak_by_page(DB, now, NoCredentials, a, p, n, sorted)
                   /\ r.resp.status = 200 /\ r.resp.data.isLogin = None
                   /\ \A item \in Items(r.resp.data) :
                        Stored(item).type \in {"1", "2"} =>
                            item.content = Placeholder(Stored(item))
        /\ GuardedRejected(c)
        /\ \A p \in Pages, n \in PageSizes, a \in AuthorFilters :
            \A order \in sort_createdAt_desc(ispeak) :
                get_ispeak_by_page_admin(DB, now, c, p, n, a, order)
                    = [db |-> DB, resp |-> HTTPException(401, "invalid credentials")]

\* the author's session had expired when they read their own listing: their
\* AuthorOnly entry was served redacted, as to nobody
C29_Witness ==
    /\ resp.op = "get_ispeak_by_page" /\ resp.res.status = 200
    /\ resp.req.credentials = StaleSession("u1") /\ now > 0
    /\ resp.res.data.isLogin = None
    /\ \E item \in Items(resp.res.data) :
        /\ Stored(item).type = "2" /\ Stored(item).author = "u1"
        /\ item.content = AUTHOR_ONLY

----------------------------------------------------------------------------
(* app/routers/user.py and app/services/user_service.py: the bootstrap of   *)
(* the first user.  u holds the USERS collection and the ObjectIds          *)
(* generated for it.                                                        *)

\* the digest create_one stores when no password is given
DEFAULT_PASSWORD_HASH ==
    [empty |-> FALSE, wellFormed |-> TRUE, salt |-> "TVk79hQVVpmfu2BOupaIl.",
     digest |-> <<"lw80Wlwvnpwl0oOjjLH180fi16F9p0K">>]

\* count_documents({})
UserService_count_users(u) == Cardinality(u.docs)

\* create_one(db, userName): createdAt and updatedAt are two readings of the
\* clock, t and then t2
UserService_create_one(u, userName, t, t2) ==
    LET user_data == [_id |-> u.created + 1, userName |-> userName,
                      password |-> DEFAULT_PASSWORD_HASH, createdAt |-> t,
                      updatedAt |-> t2]
    IN [u |-> [u EXCEPT !.docs = @ \cup {user_data}, !.created = @ + 1],
        result |-> [_id |-> user_data._id, userName |-> userName]]

\* init_user up to the await of create_one: the refusal, or nothing yet
init_user_refused(u) == UserService_count_users(u) > 0

\* init_user from the await of create_one on
init_user_create(u, userName, t, t2) ==
    LET r == UserService_create_one(u, userName, t, t2)
    IN [u |-> r.u, resp |-> Success(r.result, "ok")]

----------------------------------------------------------------------------
(* SpecBoot, the bootstrap scenario: requests to the bootstrap route run as *)
(* the event loop runs them, each suspended at the await between its count  *)
(* of the users and its insert, where other requests may run                *)

BootNames == {"admin", "root"}

InitBoot ==
    /\ StoreIdle
    /\ pw = NoScenario
    /\ jwt = NoScenario
    /\ conn = NoScenario
    /\ users = [phase |-> "on", docs |-> {}, created |-> 0]

\* the request counted the users: it is refused, or goes on to the insert
BeginInitUser(userName) ==
    IF init_user_refused(users)
    THEN /\ resp' = [op |-> "init_user", req |-> [userName |-> userName],
                     res |-> HTTPException(400, "a user exists")]
         /\ UNCHANGED <<ispeak, tokens, tags, ids, now, pw, jwt, pending, conn, users>>
    ELSE /\ Cardinality(pending) < MaxInit
         /\ Suspend([rid |-> FreeRid, op |-> "init_user",
                     req |-> [userName |-> userName]])

\* the insert of a request that counted no user
FinishInitUser(q) ==
    \E t2 \in SecondRead :
        LET r == init_user_create(users, q.req.userName, now, t2)
        IN /\ users' = r.u
           /\ resp' = [op |-> "init_user", req |-> q.req, res |-> r.resp]
           /\ now' = t2
           /\ pending' = pending \ {q}
           /\ UNCHANGED <<ispeak, tokens, tags, ids, pw, jwt, conn>>

NextBoot ==
    \/ users.phase = "on" /\ Tick
    \/ \E n \in BootNames : BeginInitUser(n)
    \/ \E q \in pending : FinishInitUser(q)

SpecBoot == InitBoot /\ [][NextBoot]_vars

\* C30: the bootstrap creates a user only when the user store is empty: under
\* any sequence or interleaving of bootstrap requests, two requests whose count
\* and insert overlap included, at most one user is ever created by bootstrap
\* and every request made while a user exists fails without inserting.
C30_BootstrapOnce ==
    /\ users.created <= 1
    /\ Cardinality(users.docs) <= 1
    /\ (resp.op = "init_user" /\ resp.res.status = 200) =>
            users.docs = {d \in users.docs : d._id = resp.res.data._id}

====
